---------------------------- MODULE Spec2Model ----------------------------
(***************************************************************************)
(* A model of the eccat chess engine (skycloudd/eccat):                    *)
(*                                                                         *)
(*   - the transposition table of src/src/tt.rs          (SpecTT),         *)
(*   - the reader / coordinator / writer / search-worker threads of        *)
(*     src/src/lib.rs, src/src/uci.rs and src/src/search.rs                *)
(*     (Spec, and FairSpec for liveness),                                  *)
(*   - one search, iterative deepening over the recursive negamax and      *)
(*     quiescence of src/src/search.rs                   (SpecSearch).     *)
(*                                                                         *)
(* Widths and sizes of the program are scaled down; every scaled quantity  *)
(* is a named definition with the program's value in its comment.          *)
(***************************************************************************)
EXTENDS Integers, Sequences, FiniteSets, TLC

VARIABLES
    \* ---- transposition table (tt.rs) ----
    tt,          \* the TranspositionTable: table, total_entries, used_entries
    ttOps,       \* number of table operations performed (bounds a run of SpecTT)
    ttLast,      \* history: the last table operation, its entry and the slot it wrote
    ttKeys,      \* history: keys inserted since the table was last cleared or allocated
    \* ---- reader thread (uci.rs report_thread) ----
    hostSent,    \* number of lines the host has sent
    readerQuit,  \* the reader's `quit`
    \* ---- coordinator (lib.rs Engine) ----
    reportq,     \* channel of EngineReport, to the coordinator
    cpc,         \* where the coordinator is in main_loop
    hashOpt,     \* options.hash
    board,       \* Arc<Mutex<Board>>: the value
    history,     \* Arc<Mutex<Vec<History>>>: the value, a sequence of hashes
    locks,       \* which of the mutexes board, history, tt the worker holds
    poisoned,    \* the worker panicked while holding the mutexes
    \* ---- writer thread (uci.rs control_thread) ----
    uciq,        \* channel of EngineToUci, to the writer
    writerQuit,  \* the writer's `quit`
    out,         \* the lines printed so far
    errout,      \* the lines written to the diagnostic stream (eprintln!)
    \* ---- search worker (search.rs Search::init) ----
    searchq,     \* channel of EngineToSearch, the worker's inbox
    wpc,         \* where the worker is
    halt,        \* the worker's `halt`
    wquit,       \* the worker's `quit`
    search_mode, \* the worker's `search_mode`
    ss,          \* SearchState: nodes, depth, terminate
    id,          \* locals of iterative_deepening: best_move, root_pv, depth, stop
    visited,     \* nodes the running root negamax call has entered
    clock,       \* time since start_time, as far as the search can observe it
    sid,         \* history: number of searches started
    bestCount,   \* history: BestMove reports sent by the current search
    searchRoot,  \* history: the board the current search started on
    rootHistory, \* history: the history the current search started with
    \* ---- one search in full (SpecSearch) ----
    stack,       \* the calls of negamax and quiescence in progress, outermost first
    seen,        \* history: the paths through the search taken so far
    \* ---- one function on its own ----
    call         \* a function applied to given arguments: the arguments, the result

ttGhost == <<ttOps, ttLast, ttKeys>>

ttVars == <<tt, ttOps, ttLast, ttKeys>>

readerVars == <<hostSent, readerQuit>>

coordVars == <<cpc, hashOpt>>

sharedVars == <<board, history>>

lockVars == <<locks, poisoned>>

writerVars == <<writerQuit, out>>

workerVars ==
    <<wpc, halt, wquit, search_mode, ss, id, visited, sid, bestCount, searchRoot,
      rootHistory>>

descentVars == <<stack, seen>>

threadVars ==
    <<readerVars, coordVars, sharedVars, lockVars, writerVars, workerVars,
      reportq, uciq, searchq, clock, descentVars, errout>>

vars == <<ttVars, threadVars, call>>

---------------------------------------------------------------------------
(***************************************************************************)
(* Generic helpers.                                                        *)
(***************************************************************************)
Min(S) == CHOOSE x \in S : \A y \in S : x <= y

Max(S) == CHOOSE x \in S : \A y \in S : x >= y

\* Option<T>: None is the empty sequence, Some(x) the one-element sequence.
None == << >>

Some(x) == <<x>>

IsSome(o) == o /= None

Unwrap(o) == o[1]

RECURSIVE Pow2(_)
Pow2(n) == IF n = 0 THEN 1 ELSE 2 * Pow2(n - 1)

---------------------------------------------------------------------------
(***************************************************************************)
(* Transposition table, src/src/tt.rs.                                     *)
(***************************************************************************)

\* Bounds of the table model.
MaxTTOps == 5       \* table operations in one run of SpecTT
MaxMb == 2          \* largest table size requested ("MiB")
MaxTTDepth == 2     \* largest depth of an inserted entry (depth is a u8)
LowBits == 2        \* u32::BITS = 32 in the program: width of the key part that indexes
MbBytes == 64       \* 1024 * 1024 in the program: bytes of one "MiB" (one bucket here)
FracBits == 16      \* precision of the f64 quotient in hashfull (53 bits in the program)

\* assert_size!(Bucket, 64); assert_size!(Entry, 16)
BucketBytes == 64
EntryBytes == 16

\* Bucket::ENTRIES = 64 / size_of::<Entry>()
ENTRIES == BucketBytes \div EntryBytes

Slots == 0 .. (ENTRIES - 1)

\* key & 0xffff_ffff keeps the low LowBits bits of the key.
LowMod == Pow2(LowBits)

NoMove == "none"

Flags == {"Exact", "Alpha", "Beta"}

\* Entry::default(): all fields zero, Flag::Exact is the #[default] flag.
DefaultEntry ==
    [key |-> 0, depth |-> 0, flag |-> "Exact", score |-> 0, best_move |-> NoMove]

\* Entry::new
EntryNew(key, depth, flag, score, best_move) ==
    [key |-> key, depth |-> depth, flag |-> flag, score |-> score,
     best_move |-> best_move]

\* Bucket::default()
BucketDefault == [i \in Slots |-> DefaultEntry]

\* TranspositionTable::new(mb_size)
TTNew(mb_size) ==
    LET bytes == mb_size * MbBytes
        bucket_size == BucketBytes
        total_buckets == bytes \div bucket_size
    IN  [table |-> [b \in 0 .. (total_buckets - 1) |-> BucketDefault],
         total_entries |-> total_buckets * ENTRIES,
         used_entries |-> 0]

\* self.table.len()
TableLen(t) == Cardinality(DOMAIN t.table)

\* u64: two u32 wide
WordMod == LowMod * LowMod

\* Variant: a hash_idx that multiplies the whole key.
HashIdxWholeKey(t, key) == ((key * TableLen(t)) % WordMod) \div LowMod

\* TranspositionTable::hash_idx: the product is a u64
HashIdx(t, key) == (((key % LowMod) * TableLen(t)) % WordMod) \div LowMod

\* a mutated probe: the addressed bucket's first entry, its key not compared
ProbeIndexOnly(t, key) ==
    IF TableLen(t) = 0 THEN None ELSE Some(t.table[HashIdx(t, key)][0])

\* a mutated probe: the last matching entry of the bucket instead of the first
ProbeLastMatch(t, key) ==
    IF TableLen(t) = 0
    THEN None
    ELSE LET bucket == t.table[HashIdx(t, key)]
             hits == {i \in Slots : bucket[i].key = key}
         IN  IF hits = {} THEN None ELSE Some(bucket[Max(hits)])

\* TranspositionTable::probe: the first entry of the addressed bucket whose key matches
Probe(t, key) ==
    IF TableLen(t) = 0
    THEN None
    ELSE LET bucket == t.table[HashIdx(t, key)]
             hits == {i \in Slots : bucket[i].key = key}
         IN  IF hits = {} THEN None ELSE Some(bucket[Min(hits)])

\* The scan of Bucket::store, `for i in 1..ENTRIES`: the index of the slot to overwrite.
RECURSIVE StoreScan(_, _, _, _)
StoreScan(bucket, i, lowest_depth_index, lowest_depth) ==
    IF i >= ENTRIES
    THEN lowest_depth_index
    ELSE IF bucket[i].depth < lowest_depth
         THEN StoreScan(bucket, i + 1, i, bucket[i].depth)
         ELSE StoreScan(bucket, i + 1, lowest_depth_index, lowest_depth)

\* a mutated scan: `<=` for `<`, so the last of the lowest-depth slots is chosen
RECURSIVE StoreScanLast(_, _, _, _)
StoreScanLast(bucket, i, lowest_depth_index, lowest_depth) ==
    IF i >= ENTRIES
    THEN lowest_depth_index
    ELSE IF bucket[i].depth <= lowest_depth
         THEN StoreScanLast(bucket, i + 1, i, bucket[i].depth)
         ELSE StoreScanLast(bucket, i + 1, lowest_depth_index, lowest_depth)

\* a mutated slot choice
StoreIndexLast(bucket) == StoreScanLast(bucket, 1, 0, bucket[0].depth)

\* the slot Bucket::store overwrites
StoreIndex(bucket) == StoreScan(bucket, 1, 0, bucket[0].depth)

\* a mutated count: used_entries grows on every store
StoreUsedAlways(bucket, used_entries) == used_entries + 1

\* Bucket::store, the counter: incremented when the overwritten slot is empty
StoreUsed(bucket, used_entries) ==
    IF bucket[StoreIndex(bucket)].depth = 0 THEN used_entries + 1 ELSE used_entries

\* Bucket::store, the bucket: the chosen slot is overwritten
BucketStore(bucket, entry) == [bucket EXCEPT ![StoreIndex(bucket)] = entry]

\* TranspositionTable::insert
Insert(t, entry) ==
    IF TableLen(t) = 0
    THEN t
    ELSE LET index == HashIdx(t, entry.key)
         IN  [t EXCEPT !.table[index] = BucketStore(t.table[index], entry),
                       !.used_entries = StoreUsed(t.table[index], t.used_entries)]

\* TranspositionTable::resize
Resize(t, mb_size) == TTNew(mb_size)

\* Variant: a clear that leaves the table as it is.
ClearNothing(t) == t

\* TranspositionTable::clear
Clear(t) ==
    [t EXCEPT !.table = [b \in DOMAIN t.table |-> [i \in Slots |-> DefaultEntry]],
              !.used_entries = 0]

\* `used as f64 / total as f64`: the quotient rounded to nearest at FracBits binary
\* places (the program's f64 rounds to nearest at 53 bits).
F64Div(a, b) == (2 * a * Pow2(FracBits) + b) \div (2 * b)

\* `(q * 1000f64).floor() as u16` of such a quotient
F64MulFloor(q, m) == (q * m) \div Pow2(FracBits)

\* TranspositionTable::hashfull
Hashfull(t) ==
    IF TableLen(t) > 0
    THEN F64MulFloor(F64Div(t.used_entries, t.total_entries), 1000)
    ELSE 0

---------------------------------------------------------------------------
(***************************************************************************)
(* SpecTT: every sequence of insert, clear and resize on one table.        *)
(***************************************************************************)

\* Keys of the entries inserted: key 0, the largest index part (another bucket), and
\* the smallest key above the index part (same bucket as key 0, another key).
TTKeySet == {0, LowMod - 1, LowMod}

\* (flag, score, best_move) of the entries inserted, one per depth.
TTPayload(d) ==
    IF d % 3 = 1 THEN <<"Exact", 7, "m1">>
    ELSE IF d % 3 = 2 THEN <<"Beta", -7, NoMove>>
    ELSE <<"Alpha", 0, "m2">>

\* The search inserts at depth >= 1 only (depth 0 is quiescence, which does not store).
TTEntries ==
    {EntryNew(k, d, TTPayload(d)[1], TTPayload(d)[2], TTPayload(d)[3]) :
        k \in TTKeySet, d \in 1 .. MaxTTDepth}

TTSizes == 0 .. MaxMb

\* ttLast: the operation, the entry inserted, the slot written and what it held.
NoOp == [op |-> "new", entry |-> DefaultEntry, slot |-> 0, was |-> DefaultEntry]

TTInit ==
    /\ tt \in {TTNew(mb) : mb \in TTSizes}
    /\ ttOps = 0
    /\ ttLast = NoOp
    /\ ttKeys = {}

TTInsert(e) ==
    /\ ttOps < MaxTTOps
    /\ tt' = Insert(tt, e)
    /\ ttOps' = ttOps + 1
    /\ ttLast' = IF TableLen(tt) = 0
                 THEN [NoOp EXCEPT !.op = "insert", !.entry = e]
                 ELSE LET bucket == tt.table[HashIdx(tt, e.key)]
                      IN  [op |-> "insert", entry |-> e, slot |-> StoreIndex(bucket),
                           was |-> bucket[StoreIndex(bucket)]]
    /\ ttKeys' = IF TableLen(tt) = 0 THEN ttKeys ELSE ttKeys \cup {e.key}
    /\ UNCHANGED <<threadVars, call>>

TTClear ==
    /\ ttOps < MaxTTOps
    /\ tt' = Clear(tt)
    /\ ttOps' = ttOps + 1
    /\ ttLast' = [NoOp EXCEPT !.op = "clear"]
    /\ ttKeys' = {}
    /\ UNCHANGED <<threadVars, call>>

TTResize(mb) ==
    /\ ttOps < MaxTTOps
    /\ tt' = Resize(tt, mb)
    /\ ttOps' = ttOps + 1
    /\ ttLast' = [NoOp EXCEPT !.op = "resize"]
    /\ ttKeys' = {}
    /\ UNCHANGED <<threadVars, call>>

TTNext ==
    \/ \E e \in TTEntries : TTInsert(e)
    \/ TTClear
    \/ \E mb \in TTSizes : TTResize(mb)

---------------------------------------------------------------------------
(***************************************************************************)
(* Positions.  The board library (cozy_chess) is outside the repository;   *)
(* the model plays on a small fixed set of positions, each with its legal  *)
(* moves in generation order.                                              *)
(***************************************************************************)

\* A move: its UCI text, the position it leads to, whether the target square is
\* occupied (is_capture), its promotion piece and its static exchange value (see).
Mv(uci, to, capture, promotion, see) ==
    [uci |-> uci, to |-> to, capture |-> capture, promotion |-> promotion, see |-> see]

Quiet(uci, to) == Mv(uci, to, FALSE, NoMove, 0)

Capture(uci, to, see) == Mv(uci, to, TRUE, NoMove, see)

\* A position: legal moves, side to move in check, static evaluation for the side to
\* move, known draw by material (Oracle::is_draw), Zobrist hash, halfmove clock.
Pos(moves, check, eval, oracle, hash, halfmove) ==
    [moves |-> moves, check |-> check, eval |-> eval, oracle |-> oracle,
     hash |-> hash, halfmove |-> halfmove]

Game ==
    [start |-> Pos(<<Quiet("e2e4", "mid"), Quiet("d2d4", "mid")>>,
                   FALSE, 20, FALSE, 19, 0),
     mid   |-> Pos(<<Quiet("g8f6", "start")>>, FALSE, -20, FALSE, 20, 0),
     open  |-> Pos(<<Quiet("a2a3", "s1"), Quiet("b2b3", "s2"),
                     Quiet("c2c3", "s3"), Quiet("d2d4", "s4")>>,
                   FALSE, 0, FALSE, 1, 0),
     s1    |-> Pos(<<Quiet("h7h6", "w1")>>, FALSE, 0, FALSE, 2, 0),
     w1    |-> Pos(<<Quiet("a3a4", "stale")>>, FALSE, -900, FALSE, 3, 0),
     s2    |-> Pos(<<Quiet("g7g6", "p2"), Quiet("d8h4", "c")>>, FALSE, 100, FALSE, 4, 0),
     p2    |-> Pos(<<Quiet("b3b4", "stale")>>, FALSE, -200, FALSE, 5, 0),
     c     |-> Pos(<<Quiet("e1e2", "lc")>>, TRUE, -300, FALSE, 6, 0),
     lc    |-> Pos(<<Quiet("h4h3", "stale")>>, FALSE, 300, FALSE, 7, 0),
     s3    |-> Pos(<<Quiet("d8h4", "c"), Capture("c7c3", "l3", 100)>>,
                   FALSE, -50, FALSE, 8, 0),
     l3    |-> Pos(<<Quiet("b2c3", "kk")>>, FALSE, -100, FALSE, 9, 0),
     kk    |-> Pos(<<Quiet("e8d8", "stale")>>, FALSE, 0, TRUE, 10, 0),
     s4    |-> Pos(<<Quiet("e8e7", "l4")>>, TRUE, 50, FALSE, 11, 0),
     l4    |-> Pos(<<Quiet("d4d5", "stale"), Quiet("d1d8", "mated")>>,
                   FALSE, -800, FALSE, 12, 0),
     win   |-> Pos(<<Quiet("d1d8", "mated"), Quiet("d1d7", "x1")>>,
                   FALSE, 0, FALSE, 13, 0),
     x1    |-> Pos(<<Quiet("e8d7", "stale")>>, TRUE, 0, FALSE, 14, 0),
     rep   |-> Pos(<<Quiet("g1f3", "rc")>>, FALSE, 0, FALSE, 15, 2),
     rc    |-> Pos(<<Quiet("g8f6", "stale")>>, FALSE, 0, FALSE, 16, 3),
     stale |-> Pos(<< >>, FALSE, 0, FALSE, 17, 0),
     mated |-> Pos(<< >>, TRUE, 0, FALSE, 18, 0)]

\* Board::default()
BoardDefault == "start"

\* board.generate_moves: the legal moves, in generation order
LegalMoves(b) == Game[b].moves

\* Variant: a fallback that takes the last legal move.
LastLegalMove(b) ==
    IF LegalMoves(b) = << >> THEN None
    ELSE Some(LegalMoves(b)[Len(LegalMoves(b))])

\* first_legal_move(board)
FirstLegalMove(b) ==
    IF LegalMoves(b) = << >> THEN None ELSE Some(Head(LegalMoves(b)))

\* board.hash()
BoardHash(b) == Game[b].hash

\* evaluate(board)
Evaluate(b) == Game[b].eval

---------------------------------------------------------------------------
(***************************************************************************)
(* Messages (search.rs: EngineToSearch, SearchToEngine, SearchMode;        *)
(* uci.rs: UciToEngine, EngineToUci; lib.rs: EngineReport).                *)
(***************************************************************************)

\* Bounds of the thread model.
MaxRequests == 3    \* lines the host sends in one run
MaxGoDepth == 1     \* largest N of `go depth N`
MaxIterDepth == 2   \* 128 in the program: last depth iterative deepening tries
MaxNodes == 2       \* nodes one root negamax call enters at most
PollEvery == 2      \* 0x2000 in the program: nodes between two polls of the inbox
HashDefault == 1    \* 16 in the program: default of the Hash option, in "MiB"
KillerRows == 8     \* 128 in the program: plies the killer-move table has a row for

\* SearchMode
ModeInfinite == [kind |-> "Infinite", n |-> 0]

ModeDepth(n) == [kind |-> "Depth", n |-> n]

\* SearchMode::MoveTime of ms milliseconds; the Duration is signed
ModeMoveTimeMs(ms) == [kind |-> "MoveTime", n |-> ms]

ModeMoveTime == [kind |-> "MoveTime", n |-> 0]

ModeGameTime == [kind |-> "GameTime", n |-> 0]

\* The modes of the `go` lines the host sends.
GoModes == {ModeInfinite} \cup {ModeDepth(n) : n \in 1 .. MaxGoDepth}

\* Result<T, E>
Ok(v) == [ok |-> TRUE, value |-> v]

Err(e) == [ok |-> FALSE, err |-> e]

\* Text is a sequence of characters; these are the digits.
DigitChars == <<"0", "1", "2", "3", "4", "5", "6", "7", "8", "9">>

IsDigit(c) == \E d \in DOMAIN DigitChars : DigitChars[d] = c

DigitValue(c) == (CHOOSE d \in DOMAIN DigitChars : DigitChars[d] = c) - 1

\* format!("{}", n) of a number that is not negative
RECURSIVE Decimal(_)
Decimal(n) ==
    IF n < Len(DigitChars) THEN <<DigitChars[n + 1]>>
    ELSE Append(Decimal(n \div Len(DigitChars)), DigitChars[(n % Len(DigitChars)) + 1])

\* The number a string of digits stands for, read from the left.
RECURSIVE DigitsValue(_, _)
DigitsValue(digits, acc) ==
    IF digits = << >> THEN acc
    ELSE DigitsValue(Tail(digits), (acc * Len(DigitChars)) + DigitValue(Head(digits)))

\* Variant: a parse that reads the digits and skips every other character.
ParseI64SkipOthers(text) ==
    Ok(DigitsValue(SelectSeq(text, IsDigit), 0))

\* value.parse::<i64>(): an optional sign, then digits and nothing else.  The texts
\* of the model are too short to overflow an i64.
ParseI64(text) ==
    LET signed == text /= << >> /\ Head(text) \in {"+", "-"}
        digits == IF signed THEN Tail(text) ELSE text
    IN  IF text = << >> THEN Err("cannot parse integer from empty string")
        ELSE IF digits = << >> \/ \E i \in DOMAIN digits : ~IsDigit(digits[i])
        THEN Err("invalid digit found in string")
        ELSE IF signed /\ Head(text) = "-" THEN Ok(0 - DigitsValue(digits, 0))
        ELSE Ok(DigitsValue(digits, 0))

\* UciToEngine, as handle_msg builds them from a host line.  value is the text a
\* setoption line carries, history the hashes a position line plays through.
Req(t, mode, b, n) ==
    [t |-> t, mode |-> mode, board |-> b, n |-> n, value |-> None, history |-> << >>]

ReqPositionWith(b, hashes) ==
    [Req("Position", ModeInfinite, b, 0) EXCEPT !.history = hashes]

ReqGo(mode) == Req("Go", mode, BoardDefault, 0)

\* setoption name Hash [value <text>]
ReqSetOption(value) ==
    [Req("SetOption", ModeInfinite, BoardDefault, 0) EXCEPT !.value = value]

ReqSetHash(n) == ReqSetOption(Some(Decimal(n)))

ReqPlain(t) == Req(t, ModeInfinite, BoardDefault, 0)

\* The history a `position` line builds for board b: one hash per move played.
HistoryOf(b) == IF b = "rep" THEN <<BoardHash("rc"), BoardHash("rep")>> ELSE << >>

ReqPosition(b) == ReqPositionWith(b, HistoryOf(b))

\* The lines the host may send.
HostRequests ==
    {ReqPosition(b) : b \in {"stale"}}
        \cup {ReqGo(m) : m \in GoModes}
        \cup {ReqSetHash(n) : n \in {MaxMb}}
        \cup {ReqPlain(t) : t \in {"UciNewGame", "IsReady", "Stop", "Quit"}}

\* EngineToSearch
Cmd(t, mode, n) == [t |-> t, mode |-> mode, n |-> n]

\* SearchToEngine, with the number of the search that sent it
Summary(s, depth, hashfull, pv) ==
    [t |-> "Summary", sid |-> s, depth |-> depth, hashfull |-> hashfull, mv |-> pv]

BestMove(s, mv) ==
    [t |-> "BestMove", sid |-> s, depth |-> 0, hashfull |-> 0, mv |-> mv]

\* EngineReport
ReportUci(req) ==
    [src |-> "Uci", req |-> req, rep |-> BestMove(0, NoMove), err |-> << >>]

ReportSearch(rep) ==
    [src |-> "Search", req |-> ReqPlain("IsReady"), rep |-> rep, err |-> << >>]

\* EngineReport::Error(err): err is the text of the error, in pieces
ReportError(err) ==
    [src |-> "Error", req |-> ReqPlain("IsReady"), rep |-> BestMove(0, NoMove),
     err |-> err]

\* A line of the diagnostic stream: eprintln!("{prefix}: {text}")
Diag(prefix, text) == [prefix |-> prefix, text |-> text]

\* UciMessage::Position { startpos, fen, moves }, as the parser hands it to handle_msg.
\* A FEN text is the name of a position of Game, or a text that names none.
MsgPosition(startpos, fen, moves) ==
    [t |-> "position", startpos |-> startpos, fen |-> fen, moves |-> moves]

\* Board::from_str(&fen)
BoardFromStr(fen) ==
    IF fen \in DOMAIN Game THEN Ok(fen) ELSE Err(<<"invalid FEN">>)

\* board.try_play(convert_move_from_uci(&board, m)): the move of that text, when the
\* board has one
TryPlay(b, m) ==
    LET at == {i \in DOMAIN LegalMoves(b) : LegalMoves(b)[i].uci = m}
    IN  IF at = {} THEN Err(<<m, ": ", "illegal move">>)
        ELSE Ok(LegalMoves(b)[Min(at)].to)

\* Variant: a move loop that stops at the first move it cannot play and keeps the
\* position reached.
RECURSIVE PlayMovesKeepPrefix(_, _, _)
PlayMovesKeepPrefix(b, moves, hashes) ==
    IF moves = << >> \/ ~TryPlay(b, Head(moves)).ok
    THEN Ok(ReqPositionWith(b, hashes))
    ELSE LET to == TryPlay(b, Head(moves)).value
         IN  PlayMovesKeepPrefix(to, Tail(moves), Append(hashes, BoardHash(to)))

\* handle_msg, the loop over the moves of a position line: play each on the local
\* board and push its hash, or return the error of the first that cannot be played
RECURSIVE PlayMoves(_, _, _)
PlayMoves(b, moves, hashes) ==
    IF moves = << >> THEN Ok(ReqPositionWith(b, hashes))
    ELSE LET played == TryPlay(b, Head(moves))
         IN  IF ~played.ok THEN played
             ELSE PlayMoves(played.value, Tail(moves),
                            Append(hashes, BoardHash(played.value)))

\* handle_msg: a position message is turned into a board and a history or into an
\* error; the other messages of the model pass as they are
HandleMsg(msg) ==
    IF msg.t /= "position" THEN Ok(msg)
    ELSE IF ~msg.startpos /\ msg.fen = None THEN Err(<<"no fen string provided">>)
    ELSE LET parsed == BoardFromStr(IF msg.startpos THEN BoardDefault
                                    ELSE Unwrap(msg.fen))
         IN  IF ~parsed.ok THEN parsed
             ELSE PlayMoves(parsed.value, msg.moves, << >>)

\* EngineToUci: Ready, Quit, or a forwarded search report
ToUci(t, rep) == [t |-> t, rep |-> rep]

\* Variant: a channel that hands out the newest message first.  The order of the
\* lines printed rests on the channels being first-in first-out.
SendNewestFirst(q, m) == <<m>> \o q

\* crossbeam_channel::Sender::send on an unbounded channel: the receiver takes the
\* head, the sender appends
Send(q, m) == Append(q, m)


---------------------------------------------------------------------------
(***************************************************************************)
(* The threads: reader (uci.rs report_thread), coordinator (lib.rs         *)
(* Engine::main_loop), writer (uci.rs control_thread) and search worker    *)
(* (search.rs Search::init).  The process exit that follows the            *)
(* coordinator's return is not part of the model: the other threads run on.*)
(***************************************************************************)

\* SearchState::default()
SearchStateDefault ==
    [nodes |-> 0, ply |-> 0, depth |-> 0, seldepth |-> 0, terminate |-> None,
     killer_moves |-> [p \in 0 .. (KillerRows - 1) |-> <<NoMove, NoMove>>]]

\* Variant: iterative deepening that starts at depth 2.
IdLocalsFromTwo == [best_move |-> None, root_pv |-> << >>, depth |-> 2, stop |-> FALSE]

\* the locals of iterative_deepening at its start
IdLocalsInit == [best_move |-> None, root_pv |-> << >>, depth |-> 1, stop |-> FALSE]

\* HashOption: min 1, max i64::from(u32::MAX) * 64 / (1024 * 1024) (in MiB of MbBytes)
HashMin == 1

HashMax == ((LowMod - 1) * BucketBytes) \div MbBytes

\* No function is being looked at on its own.
NoCall == [fn |-> "none"]

ThreadInit ==
    /\ hostSent = 0
    /\ readerQuit = FALSE
    /\ reportq = << >>
    /\ cpc = "recv"
    /\ hashOpt = HashDefault
    /\ board = BoardDefault
    /\ history = << >>
    /\ locks = {}
    /\ poisoned = FALSE
    /\ searchq = << >>
    /\ uciq = << >>
    /\ writerQuit = FALSE
    /\ out = << >>
    /\ errout = << >>
    /\ wpc = "recv"
    /\ halt = TRUE
    /\ wquit = FALSE
    /\ search_mode = None
    /\ ss = SearchStateDefault
    /\ id = IdLocalsInit
    /\ visited = 0
    /\ clock = 0
    /\ sid = 0
    /\ bestCount = 0
    /\ searchRoot = BoardDefault
    /\ rootHistory = << >>
    /\ stack = << >>
    /\ seen = {}

\* Engine::main_loop up to its loop: the channels, the shared board, history and
\* table, and the three threads started
Init ==
    /\ ThreadInit
    /\ tt = TTNew(HashDefault)
    /\ ttOps = 0
    /\ ttLast = NoOp
    /\ ttKeys = {}
    /\ call = NoCall

\* ---- reader: report_thread ----

\* One line read from the host, parsed by handle_msg and sent to the coordinator.
ReaderRead(r) ==
    /\ ~readerQuit
    /\ hostSent < MaxRequests
    /\ hostSent' = hostSent + 1
    /\ LET report == HandleMsg(r)
       IN  IF report.ok
           THEN /\ readerQuit' = (report.value.t = "Quit")
                /\ reportq' = Send(reportq, ReportUci(report.value))
           ELSE /\ readerQuit' = FALSE
                /\ reportq' = Send(reportq, ReportError(report.err))
    /\ UNCHANGED <<coordVars, sharedVars, lockVars, searchq, uciq, writerVars,
                   workerVars, clock, tt, ttGhost, call, errout,
                   descentVars>>

\* ---- coordinator: Engine::main_loop ----

\* report_rx.recv() has a message of the coordinator's to handle
CoordHas(src, t) ==
    /\ cpc = "recv"
    /\ reportq /= << >>
    /\ Head(reportq).src = src
    /\ (src = "Uci" => Head(reportq).req.t = t)

\* The worker's receiver is gone once its thread has ended.
WorkerGone == wpc \in {"exit", "panicked"}

\* self.search.send(cmd)?: an error return of main_loop when the receiver is gone
SearchSend(cmd) ==
    IF WorkerGone
    THEN cpc' = "failed" /\ UNCHANGED searchq
    ELSE cpc' = "recv" /\ searchq' = Send(searchq, cmd)

\* UciToEngine::IsReady
CoordIsReady ==
    /\ CoordHas("Uci", "IsReady")
    /\ reportq' = Tail(reportq)
    /\ uciq' = Send(uciq, ToUci("Ready", BestMove(0, NoMove)))
    /\ UNCHANGED <<readerVars, coordVars, sharedVars, lockVars, searchq, writerVars,
                   workerVars, clock, tt, ttGhost, call, errout,
                   descentVars>>

\* UciToEngine::Position, first statement: *board.lock().unwrap() = new_board
CoordPosition ==
    /\ CoordHas("Uci", "Position")
    /\ "board" \notin locks
    /\ IF poisoned
       THEN cpc' = "panicked" /\ UNCHANGED <<board, reportq>>
       ELSE /\ board' = Head(reportq).req.board
            /\ cpc' = "position_history"
            /\ UNCHANGED reportq
    /\ UNCHANGED <<readerVars, hashOpt, history, lockVars, searchq, uciq, writerVars,
                   workerVars, clock, tt, ttGhost, call, errout,
                   descentVars>>

\* UciToEngine::Position, second statement: *history.lock().unwrap() = new_history
CoordPositionHistory ==
    /\ cpc = "position_history"
    /\ "history" \notin locks
    /\ IF poisoned
       THEN cpc' = "panicked" /\ UNCHANGED <<history, reportq>>
       ELSE /\ history' = Head(reportq).req.history
            /\ reportq' = Tail(reportq)
            /\ cpc' = "recv"
    /\ UNCHANGED <<readerVars, hashOpt, board, lockVars, searchq, uciq, writerVars,
                   workerVars, clock, tt, ttGhost, call, errout,
                   descentVars>>

\* EngineOption::set
OptionSetOk(value) == ~(value < HashMin) /\ ~(value > HashMax)

\* The error of EngineOption::set
OptionSetError(value) ==
    IF value < HashMin THEN <<"Hash must be at least ">> \o Decimal(HashMin)
    ELSE <<"Hash must be at most ">> \o Decimal(HashMax)

\* UciToEngine::SetOption, name "hash"
CoordSetOption ==
    /\ CoordHas("Uci", "SetOption")
    /\ reportq' = Tail(reportq)
    /\ LET value == Head(reportq).req.value
           parsed == ParseI64(Unwrap(value))
           Complain(text) ==
               /\ errout' = Append(errout, Diag("error", text))
               /\ UNCHANGED <<hashOpt, cpc, searchq>>
       IN  IF value = None THEN Complain(<<"missing value for Hash option">>)
           ELSE IF ~parsed.ok
           THEN Complain(<<"invalid value for Hash option: ", parsed.err>>)
           ELSE IF ~OptionSetOk(parsed.value)
           THEN Complain(OptionSetError(parsed.value))
           ELSE /\ hashOpt' = parsed.value
                /\ SearchSend(Cmd("SetHash", ModeInfinite, parsed.value))
                /\ UNCHANGED errout
    /\ UNCHANGED <<readerVars, sharedVars, lockVars, uciq, writerVars, workerVars,
                   clock, tt, ttGhost, call,
                   descentVars>>

\* EngineReport::Error(error): eprintln!("error: {error}")
CoordError ==
    /\ CoordHas("Error", "")
    /\ reportq' = Tail(reportq)
    /\ errout' = Append(errout, Diag("error", Head(reportq).err))
    /\ UNCHANGED <<readerVars, coordVars, sharedVars, lockVars, searchq, uciq,
                   writerVars, workerVars, clock, tt, ttGhost, call,
                   descentVars>>

\* ---- coordinator: the custom commands that touch the shared values ----

\* A line the coordinator itself prints with println!
CoordLine(t, n, mv) == ToUci(t, [BestMove(0, mv) EXCEPT !.t = t, !.depth = n])

\* UciToEngine::PlayMove(mv), as custom_command builds it from `make <mv>`
ReqPlayMove(mv) ==
    [Req("PlayMove", ModeInfinite, BoardDefault, 0) EXCEPT !.value = Some(mv)]

\* The texts that are moves in UCI notation: those of the game and some that no
\* position of it has
MoveTexts ==
    UNION {{Game[b].moves[i].uci : i \in DOMAIN Game[b].moves} : b \in DOMAIN Game}
        \cup {"e2e5", "e7e5", "a3a5"}

\* parse_uci_move(&board, &mv): the syntax of the text alone
ParseUciMove(b, mv) ==
    IF mv \in MoveTexts THEN Ok(mv) ELSE Err(<<"invalid move: ", mv>>)

\* UciToEngine::Eval, first println: board.lock().unwrap().side_to_move()
CoordEval ==
    /\ CoordHas("Uci", "Eval")
    /\ "board" \notin locks
    /\ IF poisoned
       THEN cpc' = "panicked" /\ UNCHANGED out
       ELSE /\ out' = Append(out, CoordLine("side to move", 0, board))
            /\ cpc' = "eval_score"
    /\ UNCHANGED <<readerVars, hashOpt, sharedVars, reportq, lockVars, searchq, uciq,
                   writerQuit, workerVars, clock, tt, ttGhost, call, errout,
                   descentVars>>

\* UciToEngine::Eval, second println: evaluate(&board.lock().unwrap())
CoordEvalScore ==
    /\ cpc = "eval_score"
    /\ "board" \notin locks
    /\ IF poisoned
       THEN cpc' = "panicked" /\ UNCHANGED <<out, reportq>>
       ELSE /\ out' = Append(out, CoordLine("evaluation", Evaluate(board), NoMove))
            /\ reportq' = Tail(reportq)
            /\ cpc' = "recv"
    /\ UNCHANGED <<readerVars, hashOpt, sharedVars, lockVars, searchq, uciq,
                   writerQuit, workerVars, clock, tt, ttGhost, call, errout,
                   descentVars>>

\* UciToEngine::PrintBoard: one guard of the board for the three prints
CoordPrintBoard ==
    /\ CoordHas("Uci", "PrintBoard")
    /\ "board" \notin locks
    /\ IF poisoned
       THEN cpc' = "panicked" /\ UNCHANGED <<out, reportq>>
       ELSE /\ out' = Append(out, CoordLine("hash", BoardHash(board), board))
            /\ reportq' = Tail(reportq)
            /\ UNCHANGED cpc
    /\ UNCHANGED <<readerVars, hashOpt, sharedVars, lockVars, searchq, uciq,
                   writerQuit, workerVars, clock, tt, ttGhost, call, errout,
                   descentVars>>

\* UciToEngine::Probe, first statement: let key = board.lock().unwrap().hash()
CoordProbe ==
    /\ CoordHas("Uci", "Probe")
    /\ "board" \notin locks
    /\ cpc' = IF poisoned THEN "panicked" ELSE "probe_table"
    /\ UNCHANGED <<readerVars, hashOpt, sharedVars, reportq, lockVars, searchq, uciq,
                   writerVars, workerVars, clock, tt, ttGhost, call, errout,
                   descentVars>>

\* UciToEngine::Probe, the rest: transposition_table.lock().unwrap().probe(key), with
\* the key read before; the entry found or its absence is printed
CoordProbeTable ==
    /\ cpc = "probe_table"
    /\ "tt" \notin locks
    /\ IF poisoned
       THEN cpc' = "panicked" /\ UNCHANGED <<out, reportq>>
       ELSE /\ LET found == Probe(tt, BoardHash(board))
               IN  out' = Append(out,
                                 IF IsSome(found)
                                 THEN CoordLine("found entry", Unwrap(found).depth,
                                                Unwrap(found).best_move)
                                 ELSE CoordLine("no entry found", 0, NoMove))
            /\ reportq' = Tail(reportq)
            /\ cpc' = "recv"
    /\ UNCHANGED <<readerVars, hashOpt, sharedVars, lockVars, searchq, uciq,
                   writerQuit, workerVars, clock, tt, ttGhost, call, errout,
                   descentVars>>

\* UciToEngine::PlayMove, first statement: parse_uci_move(&board.lock().unwrap(), &mv);
\* a text that is no move is answered with an error line
CoordPlayMove ==
    /\ CoordHas("Uci", "PlayMove")
    /\ "board" \notin locks
    /\ LET parsed == ParseUciMove(board, Unwrap(Head(reportq).req.value))
       IN  IF poisoned
           THEN cpc' = "panicked" /\ UNCHANGED <<errout, reportq>>
           ELSE IF parsed.ok
           THEN cpc' = "make_play" /\ UNCHANGED <<errout, reportq>>
           ELSE /\ errout' = Append(errout, Diag("error", parsed.err))
                /\ reportq' = Tail(reportq)
                /\ UNCHANGED cpc
    /\ UNCHANGED <<readerVars, hashOpt, sharedVars, lockVars, searchq, uciq,
                   writerVars, workerVars, clock, tt, ttGhost, call,
                   descentVars>>

\* UciToEngine::PlayMove, second statement: board.lock().unwrap().try_play(mv); a
\* move the board does not have is answered with an error line
CoordPlayMoveTry ==
    /\ cpc = "make_play"
    /\ "board" \notin locks
    /\ LET played == TryPlay(board, Unwrap(Head(reportq).req.value))
       IN  IF poisoned
           THEN cpc' = "panicked" /\ UNCHANGED <<board, errout, reportq>>
           ELSE IF played.ok
           THEN board' = played.value /\ cpc' = "make_history"
                                     /\ UNCHANGED <<errout, reportq>>
           ELSE /\ errout' = Append(errout, Diag("error", played.err))
                /\ reportq' = Tail(reportq)
                /\ cpc' = "recv"
                /\ UNCHANGED board
    /\ UNCHANGED <<readerVars, hashOpt, history, lockVars, searchq, uciq,
                   writerVars, workerVars, clock, tt, ttGhost, call,
                   descentVars>>

\* UciToEngine::PlayMove, the Ok arm: with the board's guard held,
\* history.lock().unwrap().push(History { hash: board.hash() })
CoordPlayMoveHistory ==
    /\ cpc = "make_history"
    /\ "board" \notin locks
    /\ "history" \notin locks
    /\ IF poisoned
       THEN cpc' = "panicked" /\ UNCHANGED <<history, reportq>>
       ELSE /\ history' = Append(history, BoardHash(board))
            /\ reportq' = Tail(reportq)
            /\ cpc' = "recv"
    /\ UNCHANGED <<readerVars, hashOpt, board, lockVars, searchq, uciq,
                   writerVars, workerVars, clock, tt, ttGhost, call, errout,
                   descentVars>>

\* UciToEngine::UciNewGame, first statement: the board
CoordNewGame ==
    /\ CoordHas("Uci", "UciNewGame")
    /\ "board" \notin locks
    /\ IF poisoned
       THEN cpc' = "panicked" /\ UNCHANGED board
       ELSE board' = BoardDefault /\ cpc' = "newgame_history"
    /\ UNCHANGED <<readerVars, hashOpt, history, reportq, lockVars, searchq, uciq,
                   writerVars, workerVars, clock, tt, ttGhost, call, errout,
                   descentVars>>

\* UciToEngine::UciNewGame, the history and the ClearHash command
CoordNewGameHistory ==
    /\ cpc = "newgame_history"
    /\ "history" \notin locks
    /\ IF poisoned
       THEN cpc' = "panicked" /\ UNCHANGED <<history, reportq, searchq>>
       ELSE /\ history' = << >>
            /\ reportq' = Tail(reportq)
            /\ SearchSend(Cmd("ClearHash", ModeInfinite, 0))
    /\ UNCHANGED <<readerVars, hashOpt, board, lockVars, uciq, writerVars,
                   workerVars, clock, tt, ttGhost, call, errout,
                   descentVars>>

\* UciToEngine::Stop
CoordStop ==
    /\ CoordHas("Uci", "Stop")
    /\ reportq' = Tail(reportq)
    /\ SearchSend(Cmd("Stop", ModeInfinite, 0))
    /\ UNCHANGED <<readerVars, hashOpt, sharedVars, lockVars, uciq, writerVars,
                   workerVars, clock, tt, ttGhost, call, errout,
                   descentVars>>

\* UciToEngine::GoInfinite, GoMoveTime, GoDepth
CoordGo ==
    /\ CoordHas("Uci", "Go")
    /\ reportq' = Tail(reportq)
    /\ SearchSend(Cmd("Start", Head(reportq).req.mode, 0))
    /\ UNCHANGED <<readerVars, hashOpt, sharedVars, lockVars, uciq, writerVars,
                   workerVars, clock, tt, ttGhost, call, errout,
                   descentVars>>

\* UciToEngine::Quit: Engine::quit
CoordQuit ==
    /\ CoordHas("Uci", "Quit")
    /\ reportq' = Tail(reportq)
    /\ uciq' = Send(uciq, ToUci("Quit", BestMove(0, NoMove)))
    /\ IF WorkerGone
       THEN cpc' = "failed" /\ UNCHANGED searchq
       ELSE cpc' = "done" /\ searchq' = Send(searchq, Cmd("Quit", ModeInfinite, 0))
    /\ UNCHANGED <<readerVars, hashOpt, sharedVars, lockVars, writerVars, workerVars,
                   clock, tt, ttGhost, call, errout,
                   descentVars>>

\* EngineReport::Search: BestMove and Summary are forwarded to the writer
CoordSearchReport ==
    /\ CoordHas("Search", "")
    /\ reportq' = Tail(reportq)
    /\ uciq' = Send(uciq, ToUci(Head(reportq).rep.t, Head(reportq).rep))
    /\ UNCHANGED <<readerVars, coordVars, sharedVars, lockVars, searchq, writerVars,
                   workerVars, clock, tt, ttGhost, call, errout,
                   descentVars>>

CoordinatorStep ==
    \/ CoordIsReady
    \/ CoordPosition
    \/ CoordPositionHistory
    \/ CoordSetOption
    \/ CoordNewGame
    \/ CoordNewGameHistory
    \/ CoordStop
    \/ CoordGo
    \/ CoordQuit
    \/ CoordSearchReport

\* ---- writer: control_thread ----

\* One message taken by the writer: Quit ends it, anything else is printed.
WriterStep ==
    /\ ~writerQuit
    /\ uciq /= << >>
    /\ uciq' = Tail(uciq)
    /\ IF Head(uciq).t = "Quit"
       THEN writerQuit' = TRUE /\ UNCHANGED out
       ELSE out' = Append(out, Head(uciq)) /\ UNCHANGED writerQuit
    /\ UNCHANGED <<readerVars, coordVars, sharedVars, lockVars, reportq, searchq,
                   workerVars, clock, tt, ttGhost, call, errout,
                   descentVars>>

\* ---- search worker: the thread of Search::init ----

\* Time since start_time, as the search observes it: 0 below 60% of the allowance,
\* 1 from 60% on, 2 once the allowance is exceeded.
ClockSoft == 1

ClockHard == 2

\* What a later reading of the clock can show: time does not run backwards, and a
\* search without a time limit never reads it.
Later(mode, clk) ==
    IF mode.kind \in {"MoveTime", "GameTime"} THEN clk .. ClockHard ELSE {clk}

\* Variant: a conversion of the move time that takes a negative one for zero.
MoveTimeClamped(mode) == FALSE

\* movetime.num_milliseconds().try_into().unwrap(): the i64 is converted to the
\* unsigned type of elapsed().as_millis(), which fails on a negative number
MoveTimePanics(mode) == mode.kind = "MoveTime" /\ mode.n < 0

\* check_terminate: one try_recv, then the limit of the search mode.  Yields the new
\* terminate flag, what is left of the inbox, and whether the limit's test panicked.
CheckTerminate(s, inbox, mode, clk) ==
    LET received ==
            IF inbox = << >> THEN s.terminate
            ELSE IF Head(inbox).t = "Stop" THEN Some("Stop")
            ELSE IF Head(inbox).t = "Quit" THEN Some("Quit")
            ELSE s.terminate
        limit ==
            IF mode.kind = "Infinite" THEN FALSE
            ELSE IF mode.kind = "Depth" THEN s.depth > mode.n
            ELSE clk >= ClockHard
    IN  [terminate |-> IF limit THEN Some("Stop") ELSE received,
         inbox |-> IF inbox = << >> THEN inbox ELSE Tail(inbox),
         panic |-> MoveTimePanics(mode)]

\* A panic of the worker inside a search: the thread ends, the guards it holds are
\* dropped while it unwinds and their mutexes are poisoned
WorkerPanics ==
    /\ wpc' = "panicked"
    /\ poisoned' = TRUE
    /\ locks' = {}

\* Variant: a worker that, when idle, takes the first Start out of its channel and
\* leaves what was sent before it where it is.
WorkerRecvSkipping ==
    /\ wpc = "recv"
    /\ \E k \in DOMAIN searchq :
          /\ searchq[k].t = "Start"
          /\ \A j \in 1 .. (k - 1) : searchq[j].t /= "Start"
          /\ searchq' = SubSeq(searchq, 1, k - 1) \o SubSeq(searchq, k + 1, Len(searchq))
          /\ search_mode' = Some(searchq[k].mode)
    /\ halt' = FALSE
    /\ wquit' = FALSE
    /\ wpc' = "lock_board"
    /\ UNCHANGED <<readerVars, coordVars, sharedVars, lockVars, reportq, uciq,
                   writerVars, ss, id, visited, sid, bestCount, searchRoot, rootHistory,
                   clock, tt, ttGhost, call, errout, descentVars>>

\* control_rx.recv() and the match on the command, up to `if !halt && !quit`
WorkerRecv ==
    /\ wpc = "recv"
    /\ searchq /= << >>
    /\ searchq' = Tail(searchq)
    /\ LET cmd == Head(searchq)
       IN  /\ search_mode' = IF cmd.t = "Start" THEN Some(cmd.mode) ELSE None
           /\ halt' = (cmd.t /= "Start" /\ (cmd.t = "Quit" => halt))
           /\ wquit' = (cmd.t = "Quit")
           /\ tt' = IF cmd.t = "SetHash" THEN Resize(tt, cmd.n)
                    ELSE IF cmd.t = "ClearHash" THEN Clear(tt)
                    ELSE tt
           /\ wpc' = IF cmd.t = "Quit" THEN "exit"
                     ELSE IF cmd.t = "Start" THEN "lock_board"
                     ELSE "recv"
    /\ UNCHANGED <<readerVars, coordVars, sharedVars, lockVars, reportq, uciq,
                   writerVars, ss, id, visited, sid, bestCount, searchRoot, rootHistory, clock,
                   ttGhost, call, errout,
                   descentVars>>

\* SearchRefs { board: board.lock(), .., search_state: SearchState::default(), ..
WorkerLockBoard ==
    /\ wpc = "lock_board"
    /\ locks' = locks \cup {"board"}
    /\ ss' = SearchStateDefault
    /\ wpc' = "lock_history"
    /\ UNCHANGED <<readerVars, coordVars, sharedVars, poisoned, reportq, searchq, uciq,
                   writerVars, halt, wquit, search_mode, id, visited, sid, bestCount,
                   searchRoot, rootHistory, clock, tt, ttGhost, call, errout,
                   descentVars>>

\* Variant: a worker that goes on without the guard of the history.
WorkerLeavesHistory ==
    /\ wpc = "lock_history"
    /\ wpc' = "lock_tt"
    /\ UNCHANGED <<readerVars, coordVars, sharedVars, lockVars, reportq, searchq, uciq,
                   writerVars, halt, wquit, search_mode, ss, id, visited, sid,
                   bestCount, searchRoot, rootHistory, clock, tt, ttGhost, call, errout,
                   descentVars>>

\* .. history: history.lock(), ..
WorkerLockHistory ==
    /\ wpc = "lock_history"
    /\ locks' = locks \cup {"history"}
    /\ wpc' = "lock_tt"
    /\ UNCHANGED <<readerVars, coordVars, sharedVars, poisoned, reportq, searchq, uciq,
                   writerVars, halt, wquit, search_mode, ss, id, visited, sid,
                   bestCount, searchRoot, rootHistory, clock, tt, ttGhost, call, errout,
                   descentVars>>

\* `while depth <= 128 && !stop`: where the driver goes next
IdLoop(idl) == IF idl.depth <= MaxIterDepth /\ ~idl.stop THEN "negamax" ELSE "id_finish"

\* .. transposition_table: transposition_table.lock() }, and iterative_deepening up
\* to the first test of its loop
WorkerLockTT ==
    /\ wpc = "lock_tt"
    /\ locks' = locks \cup {"tt"}
    /\ id' = IdLocalsInit
    /\ tt' = Clear(tt)
    /\ clock' = 0
    /\ sid' = sid + 1
    /\ bestCount' = 0
    /\ searchRoot' = board
    /\ rootHistory' = history
    /\ visited' = 0
    /\ ss' = [ss EXCEPT !.depth = IdLocalsInit.depth]
    /\ wpc' = IdLoop(IdLocalsInit)
    /\ UNCHANGED <<readerVars, coordVars, sharedVars, poisoned, reportq, searchq, uciq,
                   writerVars, halt, wquit, search_mode, ttGhost, call, errout,
                   descentVars>>

\* The entry of one node of the root negamax call: the poll every PollEvery nodes,
\* the return of 0 when terminated, the node count.  The root returns at once when
\* terminated or when it has no legal move.
NegamaxNode ==
    /\ wpc = "negamax"
    /\ visited < MaxNodes
    /\ \E now \in IF ss.nodes % PollEvery = 0
                   THEN Later(Unwrap(search_mode), clock) ELSE {clock} :
       LET polled == ss.nodes % PollEvery = 0
           c == CheckTerminate(ss, searchq, Unwrap(search_mode), now)
           terminate == IF polled THEN c.terminate ELSE ss.terminate
       IN  /\ clock' = now
           /\ searchq' = IF polled THEN c.inbox ELSE searchq
           /\ IF polled /\ c.panic
              THEN WorkerPanics /\ UNCHANGED ss
              ELSE /\ ss' = [ss EXCEPT !.terminate = terminate,
                                       !.nodes = IF IsSome(terminate) THEN @ ELSE @ + 1]
                   /\ wpc' = IF visited = 0
                                /\ (IsSome(terminate) \/ LegalMoves(board) = << >>)
                             THEN "id_boundary" ELSE "negamax"
                   /\ UNCHANGED lockVars
    /\ visited' = visited + 1
    /\ UNCHANGED <<readerVars, coordVars, sharedVars, reportq, uciq,
                   writerVars, halt, wquit, search_mode, id, sid, bestCount,
                   searchRoot, rootHistory, tt, ttGhost, call, errout,
                   descentVars>>

\* The root negamax call returns after its move loop: the principal variation holds
\* a legal move and the root entry is stored.
NegamaxReturn(m) ==
    /\ wpc = "negamax"
    /\ visited > 0
    /\ id' = [id EXCEPT !.root_pv = <<m>>]
    /\ tt' = Insert(tt, EntryNew(BoardHash(board), ss.depth, "Exact", 0, m.uci))
    /\ wpc' = "id_boundary"
    /\ UNCHANGED <<readerVars, coordVars, sharedVars, lockVars, reportq, searchq, uciq,
                   writerVars, halt, wquit, search_mode, ss, visited, sid, bestCount,
                   searchRoot, rootHistory, clock, ttGhost, call, errout,
                   descentVars>>

\* iterative_deepening after negamax has returned: check_terminate, the Summary
\* report of a completed iteration, the time check, and the test of the loop
IdBoundary ==
    /\ wpc = "id_boundary"
    /\ \E now \in Later(Unwrap(search_mode), clock) :
       LET mode == Unwrap(search_mode)
           c == CheckTerminate(ss, searchq, mode, now)
           completed == ~IsSome(c.terminate)
           is_time_up == mode.kind = "GameTime" /\ now >= ClockSoft
           idl == [best_move |-> IF completed /\ id.root_pv /= << >>
                                 THEN Some(Head(id.root_pv)) ELSE id.best_move,
                   root_pv |-> id.root_pv,
                   depth |-> IF completed THEN id.depth + 1 ELSE id.depth,
                   stop |-> is_time_up \/ ~completed]
       IN  /\ clock' = now
           /\ searchq' = c.inbox
           /\ IF c.panic
              THEN WorkerPanics /\ UNCHANGED <<reportq, id, ss>>
              ELSE /\ reportq' = IF completed
                                 THEN Send(reportq, ReportSearch(
                                          Summary(sid, id.depth, Hashfull(tt),
                                                  id.root_pv)))
                                 ELSE reportq
                   /\ id' = idl
                   /\ wpc' = IdLoop(idl)
                   /\ ss' = [ss EXCEPT !.terminate = c.terminate,
                                       !.depth = IF IdLoop(idl) = "negamax"
                                                 THEN idl.depth ELSE @]
                   /\ UNCHANGED lockVars
    /\ visited' = 0
    /\ UNCHANGED <<readerVars, coordVars, sharedVars, uciq, writerVars, halt,
                   wquit, search_mode, sid, bestCount, searchRoot, rootHistory, tt,
                   ttGhost, call, errout,
                   descentVars>>

\* The value of iterative_deepening, the BestMove report, the match on terminate and
\* the release of the three locks.  The unwrap of first_legal_move panics when the
\* root has no legal move: the thread ends and the locks it held are poisoned.
IdFinish ==
    /\ wpc = "id_finish"
    /\ LET best_move == IF IsSome(id.best_move) THEN id.best_move
                        ELSE FirstLegalMove(board)
       IN  IF IsSome(best_move)
           THEN /\ reportq' = Send(reportq, ReportSearch(BestMove(sid, Unwrap(best_move).uci)))
                /\ bestCount' = bestCount + 1
                /\ halt' = (halt \/ IsSome(ss.terminate))
                /\ wquit' = (ss.terminate = Some("Quit"))
                /\ wpc' = IF ss.terminate = Some("Quit") THEN "exit" ELSE "recv"
                /\ UNCHANGED poisoned
           ELSE /\ wpc' = "panicked"
                /\ poisoned' = TRUE
                /\ UNCHANGED <<reportq, bestCount, halt, wquit>>
    /\ locks' = {}
    /\ UNCHANGED <<readerVars, coordVars, sharedVars, searchq, uciq, writerVars,
                   search_mode, ss, id, visited, sid, searchRoot, rootHistory, clock, tt,
                   ttGhost, call, errout,
                   descentVars>>

WorkerStep ==
    \/ WorkerRecv
    \/ WorkerLockBoard
    \/ WorkerLockHistory
    \/ WorkerLockTT
    \/ NegamaxNode
    \/ \E m \in {LegalMoves(board)[i] : i \in DOMAIN LegalMoves(board)} : NegamaxReturn(m)
    \/ IdBoundary
    \/ IdFinish

Next ==
    \/ \E r \in HostRequests : ReaderRead(r)
    \/ CoordinatorStep
    \/ WriterStep
    \/ WorkerStep

Spec == Init /\ [][Next]_vars

\* Every thread that can take a step eventually takes one; the host owes nothing.
FairSpec ==
    /\ Spec
    /\ WF_vars(CoordinatorStep)
    /\ WF_vars(WriterStep)
    /\ WF_vars(WorkerStep)

\* ---- depth-limited searches that nobody stops ----

MaxDepthAsked == 3  \* largest N of `go depth N` where the host sends neither stop nor quit

\* The lines of a host that asks for searches to a depth and waits for them.
DepthRequests ==
    {ReqGo(ModeDepth(n)) : n \in 0 .. MaxDepthAsked} \cup {ReqPosition("stale")}

NextDepth ==
    \/ \E r \in DepthRequests : ReaderRead(r)
    \/ CoordPosition
    \/ CoordPositionHistory
    \/ CoordGo
    \/ CoordSearchReport
    \/ WriterStep
    \/ WorkerStep

SpecDepth == Init /\ [][NextDepth]_vars

\* ---- searches with a move time ----

MoveTimes == {-1, 0}  \* milliseconds after `go movetime`; the parser reads a sign

\* The lines of a host that asks for searches of a fixed time and may stop them.
MoveTimeLines ==
    {ReqGo(ModeMoveTimeMs(ms)) : ms \in MoveTimes} \cup {ReqPlain("Stop")}

NextMoveTime ==
    \/ \E r \in MoveTimeLines : ReaderRead(r)
    \/ CoordGo
    \/ CoordStop
    \/ CoordSearchReport
    \/ WriterStep
    \/ WorkerStep

SpecMoveTime == Init /\ [][NextMoveTime]_vars

\* ---- a host that sets a position after go and then stops the search ----

\* go infinite, a position line, stop
StopLines == {ReqGo(ModeInfinite), ReqPosition("open"), ReqPlain("Stop")}

NextStop ==
    \/ \E r \in StopLines : ReaderRead(r)
    \/ CoordPosition
    \/ CoordPositionHistory
    \/ CoordGo
    \/ CoordStop
    \/ CoordSearchReport
    \/ WriterStep
    \/ WorkerStep

SpecStop == Init /\ [][NextStop]_vars

\* ---- a host that sets a position with a history around a go ----

\* go depth 1 and a position line that plays moves, so that its history is not empty
PairLines == {ReqGo(ModeDepth(1)), ReqPosition("rep")}

NextPair ==
    \/ \E r \in PairLines : ReaderRead(r)
    \/ CoordPosition
    \/ CoordPositionHistory
    \/ CoordGo
    \/ CoordSearchReport
    \/ WriterStep
    \/ WorkerStep

SpecPair == Init /\ [][NextPair]_vars

\* ---- a host that sends nothing but go ----

StartLines == {ReqGo(ModeDepth(1)), ReqGo(ModeInfinite)}

NextStarts ==
    \/ \E r \in StartLines : ReaderRead(r)
    \/ CoordGo
    \/ CoordSearchReport
    \/ WriterStep
    \/ WorkerStep

SpecStarts == Init /\ [][NextStarts]_vars

\* The threads of the engine take the steps they can take; the host owes nothing.
FairSpecStarts ==
    /\ SpecStarts
    /\ WF_vars(CoordinatorStep)
    /\ WF_vars(WriterStep)
    /\ WF_vars(WorkerStep)

\* ---- a host that stops before it asks for an infinite search ----

\* The k-th line of the host: first a search to depth 1, a new hash size, a new
\* game or stop, then stop, then go infinite
ScriptLines(k) ==
    IF k = 1 THEN {ReqGo(ModeDepth(1)), ReqSetHash(MaxMb), ReqPlain("UciNewGame"),
                   ReqPlain("Stop")}
    ELSE IF k = 2 THEN {ReqPlain("Stop")}
    ELSE {ReqGo(ModeInfinite)}

NextScript ==
    \/ \E r \in ScriptLines(hostSent + 1) : ReaderRead(r)
    \/ CoordSetOption
    \/ CoordNewGame
    \/ CoordNewGameHistory
    \/ CoordStop
    \/ CoordGo
    \/ CoordSearchReport
    \/ WriterStep
    \/ WorkerStep

SpecScript == Init /\ [][NextScript]_vars

\* ---- a host that looks at the board and the table around a search ----

\* Lines whose handlers lock the board, the history or the table, and a search.
LockLines ==
    {ReqGo(ModeDepth(1)), ReqPosition("open"), ReqPlain("UciNewGame"),
     ReqPlain("Eval"), ReqPlain("PrintBoard"), ReqPlain("Probe"),
     ReqPlayMove("e2e4"), ReqPlayMove("e2e5"), ReqPlayMove("zz")}

\* A step of a handler that locks one of the three shared values
CoordLocks ==
    \/ CoordPosition
    \/ CoordPositionHistory
    \/ CoordNewGame
    \/ CoordNewGameHistory
    \/ CoordEval
    \/ CoordEvalScore
    \/ CoordPrintBoard
    \/ CoordProbe
    \/ CoordProbeTable
    \/ CoordPlayMove
    \/ CoordPlayMoveTry
    \/ CoordPlayMoveHistory

NextLocks ==
    \/ \E r \in LockLines : ReaderRead(r)
    \/ CoordLocks
    \/ CoordGo
    \/ CoordSearchReport
    \/ WriterStep
    \/ WorkerStep

SpecLocks == Init /\ [][NextLocks]_vars

\* ---- a host whose lines are partly wrong ----

\* Values of `setoption name Hash` that are refused: none, no number, out of range
BadHashValues ==
    {None, Some(<<"x">>), Some(<<"2", "x">>), Some(<<"0">>), Some(<<"-", "1">>),
     Some(Decimal(HashMax + 1))}

\* `position` lines that are refused: no FEN, a FEN of no position, a move the
\* board does not have, first or after moves it has
BadPositionLines ==
    {MsgPosition(FALSE, None, << >>),
     MsgPosition(FALSE, Some("nowhere"), << >>),
     MsgPosition(TRUE, None, <<"e2e5">>),
     MsgPosition(TRUE, None, <<"e2e4", "e7e5">>),
     MsgPosition(FALSE, Some("open"), <<"a2a3", "h7h6", "a3a5">>)}

\* `position` lines that are accepted
GoodPositionLines ==
    {MsgPosition(TRUE, None, <<"e2e4">>),
     MsgPosition(FALSE, Some("open"), <<"a2a3", "h7h6">>)}

\* The lines of a host that sets the table size and the position, well or badly, and
\* asks for a search.
RecoverLines ==
    {ReqSetOption(v) : v \in BadHashValues \cup {Some(Decimal(MaxMb))}}
        \cup BadPositionLines \cup GoodPositionLines
        \cup {ReqGo(ModeDepth(1))}

NextRecover ==
    \/ \E r \in RecoverLines : ReaderRead(r)
    \/ CoordSetOption
    \/ CoordPosition
    \/ CoordPositionHistory
    \/ CoordError
    \/ CoordGo
    \/ CoordSearchReport
    \/ WriterStep
    \/ WorkerStep

SpecRecover == Init /\ [][NextRecover]_vars

---------------------------------------------------------------------------
(***************************************************************************)
(* One search in full: iterative deepening over the recursive negamax and  *)
(* quiescence of search.rs.  The recursion is a stack of frames; each      *)
(* frame holds the locals of one call.                                     *)
(***************************************************************************)

\* Eval = i16
EvalBits == 16

EVAL_INFINITY == 30000

EvalMax == Pow2(EvalBits - 1) - 1

EvalMin == -Pow2(EvalBits - 1)

\* i16::saturating_add, i16::saturating_sub
SaturatingAdd(a, b) == Max({EvalMin, Min({EvalMax, a + b})})

SaturatingSub(a, b) == Max({EvalMin, Min({EvalMax, a - b})})

\* u8::saturating_sub
SaturatingSubU8(a, b) == Max({0, a - b})

\* !board.checkers().is_empty()
InCheck(b) == Game[b].check

\* Variant: an Entry::get that does not look at the stored depth.
EntryGetAnyDepth(e, depth, ply, alpha, beta) ==
    <<IF e.flag = "Exact" THEN Some(e.score)
      ELSE IF e.flag = "Alpha" /\ e.score <= alpha THEN Some(alpha)
      ELSE IF e.flag = "Beta" /\ e.score >= beta THEN Some(beta)
      ELSE None,
      e.best_move>>

\* Entry::get: the usable score, if any, and the stored best move
EntryGet(e, depth, ply, alpha, beta) ==
    LET value ==
            IF e.depth >= depth
            THEN IF e.flag = "Exact"
                 THEN Some(IF e.score > EVAL_INFINITY - 256 THEN e.score - ply
                           ELSE IF e.score < 256 - EVAL_INFINITY THEN e.score + ply
                           ELSE e.score)
                 ELSE IF e.flag = "Alpha"
                 THEN (IF e.score <= alpha THEN Some(alpha) ELSE None)
                 ELSE (IF e.score >= beta THEN Some(beta) ELSE None)
            ELSE None
    IN  <<value, e.best_move>>

\* The part of the program's state a search works on.
World == [board |-> board, history |-> history, ss |-> ss, tt |-> tt, seen |-> seen]

\* make_move: the old position is the value; here the world after the move
MakeMove(w, legal) ==
    LET ply == w.ss.ply + 1
    IN  [w EXCEPT !.board = legal.to,
                  !.history = Append(@, BoardHash(legal.to)),
                  !.ss.ply = ply,
                  !.ss.seldepth = IF ply > @ THEN ply ELSE @]

\* Variant: an unmake_move that leaves the history entry of the move in place.
UnmakeMoveKeepHistory(w, old_pos) ==
    [w EXCEPT !.ss.ply = @ - 1, !.board = old_pos]

\* unmake_move; Vec::pop of an empty vector does nothing
UnmakeMove(w, old_pos) ==
    [w EXCEPT !.ss.ply = @ - 1,
              !.history = IF @ = << >> THEN @ ELSE SubSeq(@, 1, Len(@) - 1),
              !.board = old_pos]

\* is_threefold_repetition: of the last halfmove_clock + 1 history entries, newest
\* first, every second one is compared with the hash of the board
IsThreefoldRepetition(w) ==
    LET n == Len(w.history)
        taken == Min({n, Game[w.board].halfmove + 1})
        looked == {n - k : k \in {j \in 0 .. (taken - 1) : j % 2 = 0}}
    IN  Cardinality({i \in looked : w.history[i] = BoardHash(w.board)}) >= 2

\* is_fifty_move_rule
IsFiftyMoveRule(w) == Game[w.board].halfmove >= 100

\* is_draw
IsDraw(w) == Game[w.board].oracle \/ IsThreefoldRepetition(w) \/ IsFiftyMoveRule(w)

\* MoveScore, as a pair that compares like the derived Ord: the variant, then its
\* payload
OrderScore(w, mv, pv) ==
    IF pv /= NoMove /\ mv.uci = pv THEN <<5, 0>>
    ELSE IF mv.promotion \notin {NoMove, "q"} THEN <<0, 0>>
    ELSE IF mv.capture THEN (IF mv.see >= 0 THEN <<4, mv.see>> ELSE <<2, mv.see>>)
    ELSE IF \E i \in 1 .. 2 : w.ss.killer_moves[w.ss.ply][i] = mv.uci THEN <<3, 0>>
    ELSE <<1, 0>>

ScoreGreater(x, y) == x[1] > y[1] \/ (x[1] = y[1] /\ x[2] > y[2])

\* order_moves: descending by score.  pdqsort sorts slices this short by insertion,
\* which keeps moves of equal score in generation order.
RECURSIVE InsertMove(_, _, _, _)
InsertMove(w, pv, sorted, mv) ==
    IF sorted = << >> THEN <<mv>>
    ELSE IF ScoreGreater(OrderScore(w, mv, pv), OrderScore(w, Head(sorted), pv))
    THEN <<mv>> \o sorted
    ELSE <<Head(sorted)>> \o InsertMove(w, pv, Tail(sorted), mv)

RECURSIVE OrderMoves(_, _, _)
OrderMoves(w, moves, pv) ==
    IF moves = << >> THEN << >>
    ELSE InsertMove(w, pv, OrderMoves(w, SubSeq(moves, 1, Len(moves) - 1), pv),
                    moves[Len(moves)])

\* generate_moves(board, captures_only)
IsGoodCapture(mv) == mv.capture /\ mv.see >= 0

GenerateMoves(b, captures_only) ==
    IF captures_only THEN SelectSeq(LegalMoves(b), IsGoodCapture) ELSE LegalMoves(b)

\* Variant: a store_killer_move that does not look at the first slot.
StoreKillerMoveAlways(w, mv) ==
    [w EXCEPT !.ss.killer_moves[w.ss.ply] = <<mv.uci, w.ss.killer_moves[w.ss.ply][1]>>]

\* store_killer_move
StoreKillerMove(w, mv) ==
    LET ply == w.ss.ply
        first_killer == w.ss.killer_moves[ply][1]
    IN  IF first_killer /= mv.uci
        THEN [w EXCEPT !.ss.killer_moves[ply] = <<mv.uci, first_killer>>]
        ELSE w

\* The killer of a beta cutoff: `if !is_capture(refs.board, legal)`, on the board
\* unmake_move has put back
CutoffKiller(w, legal) == IF legal.capture THEN w ELSE StoreKillerMove(w, legal)

\* A path of the search taken, for the record.
Saw(w, label) == [w EXCEPT !.seen = @ \cup {label}]

\* No move yet in a frame's `legal`.
NoLegal == Mv(NoMove, BoardDefault, FALSE, NoMove, 0)

\* Variant: a call whose window has its bounds the other way round.
NewFrameSwapped(fn, depth, alpha, beta, node_type, pv) ==
    [fn |-> fn, pc |-> "entry", depth |-> depth, alpha |-> beta, beta |-> alpha,
     window |-> <<beta, alpha>>, callee |-> fn,
     node_type |-> node_type, pv |-> pv, value |-> 0,
     is_check |-> FALSE, futile |-> FALSE, is_game_over |-> FALSE,
     moves |-> << >>, move_idx |-> 0, legal |-> NoLegal, old_pos |-> BoardDefault,
     stage |-> "none", hash_flag |-> "Alpha", best_move |-> NoMove,
     best_score |-> -EVAL_INFINITY - 1]

\* The locals of a call of negamax or quiescence at its entry.  pv is the vector the
\* caller passed; value is what the call returns once pc is "done".  window keeps
\* the alpha and beta the call was made with, callee the function the caller called
\* (negamax hands a call at depth 0 over to quiescence).
NewFrame(fn, depth, alpha, beta, node_type, pv) ==
    [fn |-> fn, pc |-> "entry", depth |-> depth, alpha |-> alpha, beta |-> beta,
     window |-> <<alpha, beta>>, callee |-> fn,
     node_type |-> node_type, pv |-> pv, value |-> 0,
     is_check |-> FALSE, futile |-> FALSE, is_game_over |-> FALSE,
     moves |-> << >>, move_idx |-> 0, legal |-> NoLegal, old_pos |-> BoardDefault,
     stage |-> "none", hash_flag |-> "Alpha", best_move |-> NoMove,
     best_score |-> -EVAL_INFINITY - 1]

\* `return v`
Return(f, v) == [f EXCEPT !.pc = "done", !.value = v]

\* What a step of the search yields: the world, and the frames that take the place
\* of the frames it worked on.
Yield(w, frames) == [w |-> w, frames |-> frames]

\* The futility margins [293, 620], indexed by depth
FutilityMargins == <<293, 620>>

\* The futility flag of a node: [293, 620].get(depth), and false where the array has
\* no element of that index
Futile(depth, static_eval, alpha) ==
    /\ depth < Len(FutilityMargins)
    /\ SaturatingAdd(static_eval, FutilityMargins[depth + 1]) <= alpha

\* negamax from the node count to the start of the move loop.  The poll at the top
\* is in NegamaxEnter.
NegamaxBody(f0, w0) ==
    LET is_check == InCheck(w0.board)
        depth == IF is_check THEN f0.depth + 1 ELSE f0.depth
        f == [f0 EXCEPT !.depth = depth, !.is_check = is_check]
        probed == Probe(w0.tt, BoardHash(w0.board))
        tt_result == IF IsSome(probed)
                     THEN EntryGet(Unwrap(probed), depth, w0.ss.ply, f.alpha, f.beta)
                     ELSE <<None, NoMove>>
        tt_value == tt_result[1]
        tt_move == tt_result[2]
        static_eval ==
            IF IsSome(tt_value) /\ Unwrap(tt_value) < EVAL_INFINITY - 256
                                /\ Unwrap(tt_value) > 256 - EVAL_INFINITY
            THEN Unwrap(tt_value) ELSE Evaluate(w0.board)
        pruned == /\ f.node_type \notin {"Root", "Pv"}
                  /\ depth <= 4
                  /\ SaturatingSub(static_eval, 30 * depth) >= f.beta
        moves == OrderMoves(w0, GenerateMoves(w0.board, FALSE), tt_move)
        futile == Futile(depth, static_eval, f.alpha)
    IN  IF depth = 0
        THEN Yield(w0, <<[NewFrame("quiescence", 0, f.alpha, f.beta, f.node_type, f.pv)
                              EXCEPT !.callee = "negamax"]>>)
        ELSE IF IsSome(tt_value) /\ w0.ss.ply > 0
        THEN Yield(Saw(w0, "tt"), <<Return(f, Unwrap(tt_value))>>)
        ELSE IF pruned
        THEN Yield(Saw(w0, "static"),
                   <<Return(f, SaturatingSub(static_eval, 30 * depth))>>)
        ELSE Yield(w0, <<[f EXCEPT !.pc = "loop", !.moves = moves, !.futile = futile,
                                   !.is_game_over = (moves = << >>)]>>)

\* The move loop of negamax after the move's subtree: unmake_move, the best move,
\* mate-distance pruning, the beta cutoff, the raise of alpha.  f.legal is the move,
\* eval_score its score and node_pv the line below it.
AfterMove(f, w0, eval_score, node_pv) ==
    LET legal == f.legal
        w1 == UnmakeMove(w0, f.old_pos)
        better == eval_score > f.best_score
        best_score == IF better THEN eval_score ELSE f.best_score
        best_move == IF better THEN legal.uci ELSE f.best_move
        ply == w1.ss.ply
        mated == EVAL_INFINITY - ply
        beta == IF f.beta > mated THEN mated ELSE f.beta
        mate == ply - EVAL_INFINITY
        alpha == IF mate > f.alpha THEN mate ELSE f.alpha
        g == [f EXCEPT !.best_score = best_score, !.best_move = best_move,
                       !.beta = beta, !.alpha = alpha,
                       !.moves = Tail(@), !.move_idx = @ + 1, !.pc = "loop"]
        stored == [w1 EXCEPT !.tt = Insert(@, EntryNew(BoardHash(w1.board), f.depth,
                                                       "Beta", beta, best_move))]
    IN  IF f.beta > mated /\ f.alpha >= beta
        THEN Yield(Saw(w1, "mate_beta"), <<Return([g EXCEPT !.alpha = f.alpha], beta)>>)
        ELSE IF mate > f.alpha /\ beta <= alpha
        THEN Yield(Saw(w1, "mate_alpha"), <<Return(g, alpha)>>)
        ELSE IF eval_score >= beta
        THEN Yield(Saw(CutoffKiller(stored, legal), "cutoff"),
                   <<Return(g, beta)>>)
        ELSE IF eval_score > alpha
        THEN Yield(w1, <<[g EXCEPT !.alpha = eval_score, !.hash_flag = "Exact",
                                   !.pv = <<legal>> \o node_pv]>>)
        ELSE Yield(w1, <<g>>)

\* The end of negamax, after the move loop
NegamaxEnd(f, w0) ==
    IF f.is_game_over
    THEN Yield(Saw(w0, "game_over"),
               <<Return(f, IF f.is_check THEN -EVAL_INFINITY + w0.ss.ply ELSE 0)>>)
    ELSE Yield([w0 EXCEPT !.tt = Insert(@, EntryNew(BoardHash(w0.board), f.depth,
                                                    f.hash_flag, f.alpha, f.best_move))],
               <<Return(f, f.alpha)>>)

\* One turn of the move loop of negamax up to the recursive call: make_move, the
\* futility skip, the reduction, the draw test, and the first call for the move
NegamaxMove(f, w0) ==
    LET legal == Head(f.moves)
        w1 == MakeMove(w0, legal)
        is_quiet == ~legal.capture /\ legal.promotion = NoMove
        gives_check == ~InCheck(w1.board)
        reduction == IF /\ f.depth >= 3
                        /\ f.move_idx >= 3
                        /\ ~f.is_check
                        /\ legal.promotion = NoMove
                        /\ ~InCheck(w1.board)
                     THEN 2 ELSE 0
        g == [f EXCEPT !.legal = legal, !.old_pos = w0.board]
    IN  IF f.best_move /= NoMove /\ f.futile /\ is_quiet /\ ~f.is_check /\ ~gives_check
        THEN Yield(Saw(UnmakeMove(w1, w0.board), "futility"),
                   <<[f EXCEPT !.moves = Tail(@), !.move_idx = @ + 1]>>)
        ELSE IF IsDraw(w1)
        THEN AfterMove(g, Saw(w1, "draw"), 0, << >>)
        ELSE IF f.move_idx /= 0
        THEN Yield(w1, <<[g EXCEPT !.pc = "wait", !.stage = "scout"],
                         NewFrame("negamax", SaturatingSubU8(f.depth - 1, reduction),
                                  -f.alpha - 1, -f.alpha, "Other", << >>)>>)
        ELSE Yield(w1, <<[g EXCEPT !.pc = "wait", !.stage = "full"],
                         NewFrame("negamax", f.depth - 1, -f.beta, -f.alpha, "Pv",
                                  << >>)>>)

\* A call made in the move loop of negamax has returned: the second, full-window
\* call when the first raised alpha, else the rest of the loop's turn.  The line of
\* the first call is passed on to the second.
NegamaxResume(f, child, w0) ==
    LET eval_score == -child.value
    IN  IF f.stage = "scout" /\ eval_score > f.alpha
        THEN Yield(Saw(w0, "research"),
                   <<[f EXCEPT !.stage = "full"],
                     NewFrame("negamax", f.depth - 1, -f.beta, -f.alpha, f.node_type,
                              child.pv)>>)
        ELSE AfterMove(f, w0, eval_score, child.pv)

\* quiescence from the node count to the start of its loop
QuiescenceBody(f, w0) ==
    LET stand_pat == Evaluate(w0.board)
        alpha == IF stand_pat > f.alpha THEN stand_pat ELSE f.alpha
        moves == OrderMoves(w0, GenerateMoves(w0.board, TRUE), NoMove)
    IN  IF stand_pat >= f.beta
        THEN Yield(Saw(w0, "stand_pat"), <<Return(f, f.beta)>>)
        ELSE Yield(w0, <<[f EXCEPT !.pc = "loop", !.alpha = alpha, !.moves = moves]>>)

\* One turn of the loop of quiescence up to the recursive call, or its end
QuiescenceMove(f, w0) ==
    IF f.moves = << >>
    THEN Yield(w0, <<Return(f, f.alpha)>>)
    ELSE LET legal == Head(f.moves)
         IN  Yield(MakeMove(w0, legal),
                   <<[f EXCEPT !.pc = "wait", !.legal = legal, !.old_pos = w0.board],
                     NewFrame("quiescence", 0, -f.beta, -f.alpha, "Other", << >>)>>)

\* The recursive call of quiescence has returned
QuiescenceResume(f, child, w0) ==
    LET eval_score == -child.value
        w1 == UnmakeMove(w0, f.old_pos)
        g == [f EXCEPT !.moves = Tail(@), !.pc = "loop"]
    IN  IF eval_score >= f.beta
        THEN Yield(Saw(w1, "q_cutoff"), <<Return(g, f.beta)>>)
        ELSE IF eval_score > f.alpha
        THEN Yield(w1, <<[g EXCEPT !.alpha = eval_score,
                                   !.pv = <<f.legal>> \o child.pv]>>)
        ELSE Yield(w1, <<g>>)

\* ---- the search, call by call ----

Top == stack[Len(stack)]

Caller == stack[Len(stack) - 1]

\* The frames y.frames take the place of the k topmost frames; the world is y.w.
Step(y, k) ==
    /\ stack' = SubSeq(stack, 1, Len(stack) - k) \o y.frames
    /\ board' = y.w.board
    /\ history' = y.w.history
    /\ ss' = y.w.ss
    /\ tt' = y.w.tt
    /\ seen' = y.w.seen

\* iterative_deepening calls negamax on the root: full window, NodeType::Root, and
\* the root_pv of the iterations before
SearchCall ==
    /\ wpc = "negamax"
    /\ stack = << >>
    /\ stack' = <<NewFrame("negamax", id.depth, -EVAL_INFINITY, EVAL_INFINITY, "Root",
                           id.root_pv)>>
    /\ UNCHANGED <<readerVars, coordVars, sharedVars, lockVars, reportq, searchq, uciq,
                   writerVars, workerVars, clock, tt, ttGhost, call, errout, seen>>

\* The top of negamax and of quiescence: the poll every PollEvery nodes, the return
\* of 0 when terminated, the node count; then the body of the function.
Enter(fn) ==
    /\ wpc = "negamax"
    /\ stack /= << >>
    /\ Top.fn = fn
    /\ Top.pc = "entry"
    /\ \E now \in IF ss.nodes % PollEvery = 0
                  THEN Later(Unwrap(search_mode), clock) ELSE {clock} :
       LET polled == ss.nodes % PollEvery = 0
           \* no mode of SearchRootModes has a move time: the test of the limit
           \* cannot panic here
           c == CheckTerminate(ss, searchq, Unwrap(search_mode), now)
           terminate == IF polled THEN c.terminate ELSE ss.terminate
           w == [World EXCEPT !.ss.terminate = terminate]
           counted == [w EXCEPT !.ss.nodes = @ + 1]
       IN  /\ clock' = now
           /\ searchq' = IF polled THEN c.inbox ELSE searchq
           /\ Step(IF IsSome(terminate)
                   THEN Yield(Saw(w, "terminated"), <<Return(Top, 0)>>)
                   ELSE IF fn = "negamax" THEN NegamaxBody(Top, counted)
                   ELSE QuiescenceBody(Top, counted),
                   1)
    /\ UNCHANGED <<readerVars, coordVars, lockVars, reportq, uciq, writerVars, wpc, halt,
                   wquit, search_mode, id, visited, sid, bestCount, searchRoot,
                   rootHistory, ttGhost, call, errout>>

NegamaxEnter == Enter("negamax")

QuiescenceEnter == Enter("quiescence")

\* The rest of a step of the search leaves everything outside the world alone.
SearchOnly ==
    UNCHANGED <<readerVars, coordVars, lockVars, reportq, searchq, uciq, writerVars, wpc,
                halt, wquit, search_mode, id, visited, sid, bestCount, searchRoot,
                rootHistory, clock, ttGhost, call, errout>>

\* negamax at the head of its move loop: the next move, or the end of the function
NegamaxLoop ==
    /\ wpc = "negamax"
    /\ stack /= << >>
    /\ Top.fn = "negamax"
    /\ Top.pc = "loop"
    /\ Step(IF Top.moves = << >> THEN NegamaxEnd(Top, World)
            ELSE NegamaxMove(Top, World), 1)
    /\ SearchOnly

\* A call made by negamax returns to it
NegamaxResumed ==
    /\ wpc = "negamax"
    /\ Len(stack) >= 2
    /\ Top.pc = "done"
    /\ Caller.fn = "negamax"
    /\ Step(NegamaxResume(Caller, Top, World), 2)
    /\ SearchOnly

\* quiescence at the head of its loop
QuiescenceLoop ==
    /\ wpc = "negamax"
    /\ stack /= << >>
    /\ Top.fn = "quiescence"
    /\ Top.pc = "loop"
    /\ Step(QuiescenceMove(Top, World), 1)
    /\ SearchOnly

\* The recursive call of quiescence returns to it
QuiescenceResumed ==
    /\ wpc = "negamax"
    /\ Len(stack) >= 2
    /\ Top.pc = "done"
    /\ Caller.fn = "quiescence"
    /\ Step(QuiescenceResume(Caller, Top, World), 2)
    /\ SearchOnly

\* The root call returns to iterative_deepening, root_pv as the call left it
SearchReturn ==
    /\ wpc = "negamax"
    /\ Len(stack) = 1
    /\ Top.pc = "done"
    /\ stack' = << >>
    /\ id' = [id EXCEPT !.root_pv = Top.pv]
    /\ wpc' = "id_boundary"
    /\ UNCHANGED <<readerVars, coordVars, sharedVars, lockVars, reportq, searchq, uciq,
                   writerVars, halt, wquit, search_mode, ss, visited, sid, bestCount,
                   searchRoot, rootHistory, clock, tt, ttGhost, call, errout, seen>>

\* The positions searched and the modes searched in.
SearchRoots == {BoardDefault, "open", "win", "rep", "stale", "mated"}

SearchRootModes == {ModeInfinite, ModeDepth(MaxGoDepth)}

\* A search about to make its first call of negamax: the worker has taken Start,
\* holds the three locks and has cleared the table.  The host may have sent `stop`
\* already.
InitSearch ==
    /\ call = NoCall
    /\ board \in SearchRoots
    /\ history = HistoryOf(board)
    /\ search_mode \in {Some(mode) : mode \in SearchRootModes}
    /\ reportq \in {<< >>, <<ReportUci(ReqPlain("Stop"))>>}
    /\ hostSent = (IF board = BoardDefault THEN 1 ELSE 2) + Len(reportq)
    /\ readerQuit = FALSE
    /\ cpc = "recv"
    /\ hashOpt = HashDefault
    /\ locks = {"board", "history", "tt"}
    /\ poisoned = FALSE
    /\ searchq = << >>
    /\ uciq = << >>
    /\ writerQuit = FALSE
    /\ out = << >>
    /\ errout = << >>
    /\ wpc = "negamax"
    /\ halt = FALSE
    /\ wquit = FALSE
    /\ ss = [SearchStateDefault EXCEPT !.depth = IdLocalsInit.depth]
    /\ id = IdLocalsInit
    /\ visited = 0
    /\ clock = 0
    /\ sid = 1
    /\ bestCount = 0
    /\ searchRoot = board
    /\ rootHistory = history
    /\ stack = << >>
    /\ seen = {}
    /\ tt = TTNew(HashDefault)
    /\ ttOps = 0
    /\ ttLast = NoOp
    /\ ttKeys = {}

NextSearch ==
    \/ SearchCall
    \/ NegamaxEnter
    \/ NegamaxLoop
    \/ NegamaxResumed
    \/ QuiescenceEnter
    \/ QuiescenceLoop
    \/ QuiescenceResumed
    \/ SearchReturn
    \/ IdBoundary
    \/ IdFinish
    \/ CoordStop

SpecSearch == InitSearch /\ [][NextSearch]_vars

\* The table on its own: the threads stand still.
InitTT == TTInit /\ ThreadInit /\ call = NoCall

SpecTT == InitTT /\ [][TTNext]_vars

---------------------------------------------------------------------------
(***************************************************************************)
(* Functions on their own.  `call` holds the arguments of one application  *)
(* of a function and, once it has been applied, its result; the engine     *)
(* stands still.                                                           *)
(***************************************************************************)

\* The engine as main_loop starts it, left alone.
EngineIdle ==
    /\ ThreadInit
    /\ tt = TTNew(HashDefault)
    /\ ttOps = 0
    /\ ttLast = NoOp
    /\ ttKeys = {}

MaxGetPly == 2      \* largest ply Entry::get is asked at (ply is a u8)

\* Stored scores on both sides of the two thresholds of Entry::get
GetScores ==
    {-EVAL_INFINITY, 255 - EVAL_INFINITY, 256 - EVAL_INFINITY, 0,
     EVAL_INFINITY - 256, EVAL_INFINITY - 255, EVAL_INFINITY}

GetBounds == {-1, 0, 1}

GetEntries ==
    {EntryNew(1, d, f, s, m) :
        d \in 0 .. MaxTTDepth, f \in Flags, s \in GetScores, m \in {NoMove, "e2e4"}}

InitGet ==
    /\ EngineIdle
    /\ call \in [fn : {"get"}, entry : GetEntries, depth : 0 .. MaxTTDepth,
                 ply : 0 .. MaxGetPly, alpha : GetBounds, beta : GetBounds,
                 result : {None}]

\* data.get(depth, ply, alpha, beta)
GetCall ==
    /\ call.fn = "get"
    /\ call.result = None
    /\ call' = [call EXCEPT !.result =
                    Some(EntryGet(call.entry, call.depth, call.ply, call.alpha,
                                  call.beta))]
    /\ UNCHANGED <<ttVars, threadVars>>

SpecGet == InitGet /\ [][GetCall]_vars

\* ---- hash_idx, over every table the Hash option allows and every key ----

IdxKeys == 0 .. (WordMod - 1)

InitIdx ==
    /\ ThreadInit
    /\ tt \in {TTNew(mb) : mb \in HashMin .. HashMax}
    /\ ttOps = 0
    /\ ttLast = NoOp
    /\ ttKeys = {}
    /\ call \in [fn : {"hash_idx"}, key : IdxKeys, op : {"none"}, index : {0},
                 in_table : {TRUE}]

\* What a probe or an insert of call.key leaves in `call`: the index it computed
\* and whether the table has a bucket there (indexing outside the table panics).
Indexed(op) ==
    [call EXCEPT !.op = op, !.index = HashIdx(tt, call.key),
                 !.in_table = HashIdx(tt, call.key) \in DOMAIN tt.table]

\* TranspositionTable::probe(key)
IdxProbe ==
    /\ call.fn = "hash_idx"
    /\ call.op = "none"
    /\ call' = Indexed("probe")
    /\ UNCHANGED <<ttVars, threadVars>>

\* TranspositionTable::insert(entry)
IdxInsert ==
    /\ call.fn = "hash_idx"
    /\ call.op = "none"
    /\ call' = Indexed("insert")
    /\ tt' = IF HashIdx(tt, call.key) \in DOMAIN tt.table
             THEN Insert(tt, EntryNew(call.key, 1, "Exact", 0, NoMove))
             ELSE tt
    /\ UNCHANGED <<ttGhost, threadVars>>

NextIdx == IdxProbe \/ IdxInsert

SpecIdx == InitIdx /\ [][NextIdx]_vars

\* ---- the time budget of a GameTime search ----

\* Durations are whole numbers of milliseconds; a quotient is cut at that
\* resolution, toward zero as Rust's integer division cuts.
DivTrunc(a, b) == IF a >= 0 THEN a \div b ELSE -((-a) \div b)

\* `clock / 20` when the host gave no movestogo
DefaultMovesToGo == 20

\* Duration::milliseconds(100)
SafetyMarginMs == 100

\* uci.rs GameTime
GameTime(white_time, black_time, white_increment, black_increment, moves_to_go) ==
    [white_time |-> white_time, black_time |-> black_time,
     white_increment |-> white_increment, black_increment |-> black_increment,
     moves_to_go |-> moves_to_go]

\* Variant: a budget without the safety margin.
AllocatedTimeNoMargin(gametime, side) ==
    LET side_clock == IF side = "White" THEN gametime.white_time ELSE gametime.black_time
    IN  Max({0, side_clock})

\* iterative_deepening, `if let SearchMode::GameTime(gametime)`: the value given to
\* search_state.allocated_time.  to_std() fails on a negative duration and
\* unwrap_or_default() then yields zero.
AllocatedTime(gametime, side) ==
    LET side_clock == IF side = "White" THEN gametime.white_time ELSE gametime.black_time
        increment == IF side = "White" THEN gametime.white_increment
                     ELSE gametime.black_increment
        time == IF gametime.moves_to_go = None
                THEN DivTrunc(side_clock, DefaultMovesToGo)
                ELSE IF Unwrap(gametime.moves_to_go) = 0 THEN side_clock
                ELSE DivTrunc(side_clock, Unwrap(gametime.moves_to_go))
        time_slice == time + increment - SafetyMarginMs
    IN  IF time_slice < 0 THEN 0 ELSE time_slice

\* Clocks and increments of the `go wtime .. btime .. winc .. binc .. movestogo ..`
\* lines looked at, in milliseconds; a lost clock is negative.
ClockTimes == {-300, 0, 99, 2000, 6000}

Increments == {0, 40, 100}

MovesToGo == {None, Some(0), Some(1), Some(3), Some(40)}

InitBudget ==
    /\ EngineIdle
    /\ call \in [fn : {"allocate"},
                 gametime : {GameTime(wt, bt, wi, bi, mtg) :
                                wt \in ClockTimes, bt \in ClockTimes, wi \in Increments,
                                bi \in Increments, mtg \in MovesToGo},
                 side : {"White", "Black"},
                 allocated : {None}]

\* iterative_deepening up to `refs.transposition_table.clear()`
BudgetCall ==
    /\ call.fn = "allocate"
    /\ call.allocated = None
    /\ call' = [call EXCEPT !.allocated = Some(AllocatedTime(call.gametime, call.side))]
    /\ UNCHANGED <<ttVars, threadVars>>

SpecBudget == InitBudget /\ [][BudgetCall]_vars

\* ---- the score of an info line (uci.rs control_thread) ----

\* `cp.abs() > EVAL_INFINITY - 256`
MateBand == 256

\* (mate_in_moves * sign).try_into(): the mate count of an info line is an i8
MateBits == 8

Abs(x) == IF x < 0 THEN 0 - x ELSE x

\* i16::signum
Signum(x) == IF x > 0 THEN 1 ELSE IF x < 0 THEN 0 - 1 ELSE 0

\* The remainder of Rust's integer division: it has the sign of the dividend.
RemTrunc(a, b) == a - (b * DivTrunc(a, b))

\* What the writer makes of the score cp of a Summary: a mate count, centipawns, or
\* a panic.  i16::abs of i16::MIN overflows: a panic in a build with overflow
\* checks, i16::MIN itself without them.
ScoreAttribute(cp, build) ==
    IF cp = EvalMin /\ build = "debug" THEN [kind |-> "panic", n |-> 0]
    ELSE LET abs == IF cp = EvalMin THEN EvalMin ELSE Abs(cp)
             mate_in_plies == EVAL_INFINITY - abs
             sign == Signum(cp)
             mate_in_moves == DivTrunc(mate_in_plies, 2) + RemTrunc(mate_in_plies, 2)
             mate == mate_in_moves * sign
         IN  IF abs > EVAL_INFINITY - MateBand
             THEN IF mate >= 0 - Pow2(MateBits - 1) /\ mate <= Pow2(MateBits - 1) - 1
                  THEN [kind |-> "mate", n |-> mate]
                  ELSE [kind |-> "panic", n |-> 0]
             ELSE [kind |-> "cp", n |-> cp]

\* Scores around zero, around the two ends of the mate band and at the ends of i16
ScoreMargin == 4

Scores ==
    {EvalMin, EvalMax}
        \cup ((0 - ScoreMargin) .. ScoreMargin)
        \cup {sign * (EVAL_INFINITY - d) :
                  sign \in {0 - 1, 1}, d \in (0 - ScoreMargin) .. (MateBand + ScoreMargin)}

InitScore ==
    /\ EngineIdle
    /\ call \in [fn : {"score"}, cp : Scores, build : {"debug", "release"},
                  printed : {None}]

\* EngineToUci::Summary in the writer, up to the println! of the info line
ScoreCall ==
    /\ call.fn = "score"
    /\ call.printed = None
    /\ call' = [call EXCEPT !.printed = Some(ScoreAttribute(call.cp, call.build))]
    /\ UNCHANGED <<ttVars, threadVars>>

SpecScore == InitScore /\ [][ScoreCall]_vars

\* ---- the static exchange evaluation of a capture ----

\* Piece::ALL, in the order the exchange looks for an attacker
PieceAll == <<"Pawn", "Knight", "Bishop", "Rook", "Queen", "King">>

piece_value(piece) ==
    CASE piece = "Pawn" -> 100
      [] piece = "Knight" -> 320
      [] piece = "Bishop" -> 330
      [] piece = "Rook" -> 500
      [] piece = "Queen" -> 900
      [] piece = "King" -> 10000

Not(colour) == IF colour = "White" THEN "Black" ELSE "White"

\* A piece that attacks the target square: its colour, its kind, the square it is on
Attacker(c, p, sq) == [c |-> c, p |-> p, sq |-> sq]

\* The first of Piece::ALL of which the colour has an attacker, and of these the one
\* on the lowest square (next_square); None if the colour has no attacker
NextAttacker(attackers, colour) ==
    LET ours == {a \in attackers : a.c = colour}
        kinds == {i \in DOMAIN PieceAll : \E a \in ours : a.p = PieceAll[i]}
    IN  IF ours = {} THEN None
        ELSE LET piece == PieceAll[Min(kinds)]
                 sq == Min({a.sq : a \in {x \in ours : x.p = piece}})
             IN  Some(Attacker(colour, piece, sq))

\* The sliders a capture uncovers: after a rook or a queen has left its square the
\* rook lines to the target are looked at again, after a pawn, a bishop or a queen
\* the bishop lines.  behind is the square of the piece that hides the slider.
Uncovered(hidden, attacker) ==
    {h \in hidden :
        /\ h.behind = attacker.sq
        /\ \/ h.line = "rook" /\ attacker.p \in {"Rook", "Queen"}
           \/ h.line = "bishop" /\ attacker.p \in {"Pawn", "Bishop", "Queen"}}

\* Variant: a loop over the gains stack that never raises a gain to zero.
RECURSIVE SeeResolveNoFloor(_)
SeeResolveNoFloor(gains) ==
    IF Len(gains) <= 1 THEN gains
    ELSE SeeResolveNoFloor(Append(SubSeq(gains, 1, Len(gains) - 2),
                                  gains[Len(gains) - 1] - gains[Len(gains)]))

\* The loop 'exchange of see: the colours capture in turn with their least attacker;
\* each capture pushes the value of the piece it takes.  Capturing a king ends it.
RECURSIVE SeeExchange(_, _, _, _, _)
SeeExchange(attackers, hidden, target_piece, colour, gains) ==
    LET found == NextAttacker(attackers, colour)
    IN  IF found = None THEN gains
        ELSE LET a == Unwrap(found)
                 pushed == Append(gains, piece_value(target_piece))
                 opened == Uncovered(hidden, a)
             IN  IF target_piece = "King" THEN pushed
                 ELSE SeeExchange((attackers \ {a})
                                      \cup {Attacker(h.c, h.p, h.sq) : h \in opened},
                                  hidden \ opened, a.p, Not(colour), pushed)

\* The loop over the gains stack: each gain is taken from the one below it, which is
\* raised to zero if it fell below, but for the first capture, which is forced
RECURSIVE SeeResolve(_)
SeeResolve(gains) ==
    IF Len(gains) <= 1 THEN gains
    ELSE LET forced == Len(gains) = 2
             their_gain == gains[Len(gains)]
             our_gain == gains[Len(gains) - 1] - their_gain
             rest == SubSeq(gains, 1, Len(gains) - 2)
         IN  SeeResolve(Append(rest, IF ~forced /\ our_gain < 0 THEN 0 ELSE our_gain))

\* see(board, capture): the board is the piece on the target square, the piece that
\* captures, the attackers of the target square once the capturing piece has left
\* its square, and the sliders behind them.  The side to move is White.
see(b) ==
    SeeResolve(SeeExchange(b.attackers, b.hidden, b.mover, "Black",
                           <<piece_value(b.victim)>>))[1]

MaxAttackers == 2   \* attackers of the target square a colour has besides the capturing piece
MaxHidden == 1      \* sliders behind an attacker

\* The pieces on the target square of a move is_capture accepts: a king is never there
Victims == {"Pawn", "Knight", "Bishop", "Rook", "Queen"}

\* The sets of attackers of a colour: at most one of each kind and one king
AttackerSets(c) ==
    {{Attacker(c, PieceAll[i], i + (IF c = "White" THEN 0 ELSE 10)) : i \in k} :
        k \in {x \in SUBSET DOMAIN PieceAll : Cardinality(x) <= MaxAttackers}}

\* The sliders behind the attackers: a rook or a queen on a rook line, a bishop or a
\* queen on a bishop line, behind a piece that moves along that line
HiddenSets(attackers) ==
    {{}} \cup
    {{[c |-> c, p |-> p, sq |-> 20, behind |-> a.sq, line |-> l]} :
        c \in {"White", "Black"}, p \in {"Bishop", "Rook", "Queen"},
        l \in {"rook", "bishop"}, a \in attackers}

InitSee ==
    /\ EngineIdle
    /\ \E b \in [victim : Victims, mover : {PieceAll[i] : i \in DOMAIN PieceAll},
                   white : AttackerSets("White"), black : AttackerSets("Black")] :
         \E h \in HiddenSets(b.white \cup b.black) :
            /\ \A x \in h : (x.line = "rook" => x.p /= "Bishop")
                               /\ (x.line = "bishop" => x.p /= "Rook")
            /\ Cardinality(h) <= MaxHidden
            /\ call = [fn |-> "see", victim |-> b.victim, mover |-> b.mover,
                       attackers |-> b.white \cup b.black, hidden |-> h,
                       value |-> None]

\* One call of see
SeeCall ==
    /\ call.fn = "see"
    /\ call.value = None
    /\ call' = [call EXCEPT !.value = Some(see(call))]
    /\ UNCHANGED <<ttVars, threadVars>>

SpecSee == InitSee /\ [][SeeCall]_vars

\* ---- the order of the moves of a node ----

MaxOrdered == 3    \* moves of a node whose order is looked at

\* Moves of every kind order_score tells apart: quiet moves, a queen promotion,
\* captures that win, are even and lose, promotions to a knight with and without a
\* capture
OrderPool ==
    {Quiet("a2a3", BoardDefault), Quiet("b2b3", BoardDefault),
     Mv("e7e8q", BoardDefault, FALSE, "q", 0),
     Capture("c3d4", BoardDefault, 100), Capture("f3d4", BoardDefault, 0),
     Capture("d1d4", BoardDefault, -800), Capture("h4d4", BoardDefault, -400),
     Mv("e7e8n", BoardDefault, FALSE, "n", 0), Mv("e7f8n", BoardDefault, TRUE, "n", 320)}

\* The lists of different moves the generator may hand over, in any order
MoveLists ==
    {l \in UNION {[1 .. n -> OrderPool] : n \in 0 .. MaxOrdered} :
        \A i, j \in DOMAIN l : i /= j => l[i] /= l[j]}

\* The killer slots of a ply: quiet moves or nothing, the first slot filled first
KillerSlots ==
    {<<NoMove, NoMove>>, <<"b2b3", NoMove>>, <<"b2b3", "g1f3">>, <<"e7e8q", "b2b3">>}

InitOrder ==
    /\ EngineIdle
    /\ call \in [fn : {"order_moves"}, moves : MoveLists,
                  pv : {NoMove} \cup {m.uci : m \in OrderPool}, killers : KillerSlots,
                  ordered : {None}]

\* One call of order_moves at ply 0
OrderCall ==
    /\ call.fn = "order_moves"
    /\ call.ordered = None
    /\ call' = [call EXCEPT
                    !.ordered = Some(OrderMoves([World EXCEPT
                                                    !.ss.killer_moves[0] = call.killers],
                                                call.moves, call.pv))]
    /\ UNCHANGED <<ttVars, threadVars>>

SpecOrder == InitOrder /\ [][OrderCall]_vars

\* ---- the futility flag ----

MaxFutileDepth == 4   \* largest depth of a node whose futility flag is looked at

\* Static evaluations, and bounds on both sides of each evaluation plus a margin
FutileEvals == {-400, 0, 400}

FutileAlphas ==
    {e + m + d : e \in FutileEvals, m \in {0, FutilityMargins[1], FutilityMargins[2]},
                 d \in {-1, 0, 1}}

InitFutile ==
    /\ EngineIdle
    /\ call \in [fn : {"futile"}, depth : 1 .. MaxFutileDepth, static_eval : FutileEvals,
                  alpha : FutileAlphas, value : {None}]

\* The flag as negamax computes it before its move loop; depth 0 went to quiescence
FutileCall ==
    /\ call.fn = "futile"
    /\ call.value = None
    /\ call' = [call EXCEPT !.value = Some(Futile(call.depth, call.static_eval,
                                                  call.alpha))]
    /\ UNCHANGED <<ttVars, threadVars>>

SpecFutile == InitFutile /\ [][FutileCall]_vars

\* ---- the ply along one line of the search ----

\* `while depth <= 128` of iterative_deepening: the last depth is the number of rows of
\* the killer-move table, 128 for both in the program
DeepestIter == KillerRows

MaxCaptures == 2    \* 30 in the program: captures one line of quiescence can make

\* One line from the root of an iteration down: the depth and ply of the node the
\* search stands at, whether its parent was in check, the row of the killer-move table
\* the node read, the checks and the captures of the line.
InitLine ==
    /\ EngineIdle
    /\ call \in [fn : {"line"}, at : {"negamax"}, iter : 1 .. DeepestIter,
                  depth : 1 .. DeepestIter, ply : {0}, is_check : {FALSE},
                  row : {None}, checks : {0}, captures : {0}]
    /\ call.depth = call.iter

\* negamax from its entry to order_moves, at a node that has a quiet legal move: a
\* side in check gets one more ply of depth, depth 0 goes to quiescence, and
\* order_score reads killer_moves[ply] for the quiet move, which panics past the last
\* row.  The side to move is not in check when its opponent just left a check.
LineNegamax ==
    /\ call.fn = "line"
    /\ call.at = "negamax"
    /\ \E is_check \in (IF call.is_check THEN {FALSE} ELSE BOOLEAN) :
          LET depth == call.depth + (IF is_check THEN 1 ELSE 0)
              ply == call.ply
          IN  call' = [call EXCEPT
                          !.depth = depth,
                          !.is_check = is_check,
                          !.checks = @ + (IF is_check THEN 1 ELSE 0),
                          !.row = IF depth = 0 THEN None ELSE Some(ply),
                          !.at = IF depth = 0 THEN "quiescence"
                                 ELSE IF ply >= KillerRows THEN "panicked"
                                 ELSE "ordered"]
    /\ UNCHANGED <<ttVars, threadVars>>

\* The move loop of negamax takes a move: make_move adds a ply, the child gets
\* depth - 1, less the late-move reduction where it applies.
LineMakeMove ==
    /\ call.fn = "line"
    /\ call.at = "ordered"
    /\ \E reduction \in (IF call.depth >= 3 /\ ~call.is_check THEN {0, 2} ELSE {0}) :
          call' = [call EXCEPT !.depth = SaturatingSubU8(@ - 1, reduction),
                               !.ply = @ + 1,
                               !.row = None,
                               !.at = "negamax"]
    /\ UNCHANGED <<ttVars, threadVars>>

\* quiescence takes a capture: its moves are captures, for which order_score returns
\* before it reads the killer-move table; make_move adds a ply.
LineQuiescence ==
    /\ call.fn = "line"
    /\ call.at = "quiescence"
    /\ call.captures < MaxCaptures
    /\ call' = [call EXCEPT !.ply = @ + 1, !.captures = @ + 1]
    /\ UNCHANGED <<ttVars, threadVars>>

NextLine == LineNegamax \/ LineMakeMove \/ LineQuiescence

SpecLine == InitLine /\ [][NextLine]_vars

\* ---- the killer slots over a sequence of beta cutoffs ----

MaxKillerPly == 1   \* largest ply at which a move causes a cutoff

\* A capture en passant: the pawn it takes is not on its target square, so
\* is_capture, which looks at the target square only, is false for it
EnPassant == Quiet("e5d6", BoardDefault)

\* The moves that cause the cutoffs: quiet moves, captures, promotions to a queen and
\* to a knight on an empty square, a promotion with a capture, a capture en passant
CutoffPool ==
    {Quiet("a2a3", BoardDefault), Quiet("b2b3", BoardDefault),
     Capture("c3d4", BoardDefault, 100), Capture("d1d4", BoardDefault, -800),
     Mv("e7e8q", BoardDefault, FALSE, "q", 0), Mv("e7e8n", BoardDefault, FALSE, "n", 0),
     Mv("e7f8q", BoardDefault, TRUE, "q", 500), EnPassant}

InitKiller ==
    /\ EngineIdle
    /\ call = [fn |-> "killers", last |-> [p \in 0 .. MaxKillerPly |-> NoMove]]

\* A move causes a beta cutoff at a ply: what the cutoff does to the killer slots.
\* last is the move store_killer_move was called with last for the ply.
KillerCutoff ==
    /\ call.fn = "killers"
    /\ \E p \in 0 .. MaxKillerPly, legal \in CutoffPool :
          LET after == CutoffKiller([World EXCEPT !.ss.ply = p], legal)
          IN  /\ ss' = [after.ss EXCEPT !.ply = ss.ply]
              /\ call' = [call EXCEPT !.last[p] = IF legal.capture THEN @ ELSE legal.uci]
    /\ UNCHANGED <<ttVars, readerVars, coordVars, sharedVars, lockVars, reportq, searchq,
                   uciq, writerVars, wpc, halt, wquit, search_mode, id, visited, sid,
                   bestCount, searchRoot, rootHistory, clock, errout, descentVars>>

SpecKiller == InitKiller /\ [][KillerCutoff]_vars

\* ---- the repetition test on the position a move leads to ----

MaxHistory == 4    \* entries of the history stack before the move

\* Hashes on the history stack: those of the two positions of the model that come
\* with a halfmove clock, one the other's child
HistoryHashes == {BoardHash("rep"), BoardHash("rc")}

\* A position with a legal move, one of its moves, and the history stack there
InitRepetition ==
    /\ EngineIdle
    /\ \E b \in DOMAIN Game :
         \E i \in DOMAIN LegalMoves(b) :
            \E h \in UNION {[1 .. n -> HistoryHashes] : n \in 0 .. MaxHistory} :
                call = [fn |-> "repetition", board |-> b, legal |-> LegalMoves(b)[i],
                        history |-> h, flagged |-> None]

\* make_move and then is_threefold_repetition, as the move loop of negamax calls them
RepetitionCall ==
    /\ call.fn = "repetition"
    /\ call.flagged = None
    /\ LET w == MakeMove([World EXCEPT !.board = call.board, !.history = call.history],
                         call.legal)
       IN  call' = [call EXCEPT !.flagged = Some(IsThreefoldRepetition(w))]
    /\ UNCHANGED <<ttVars, threadVars>>

SpecRepetition == InitRepetition /\ [][RepetitionCall]_vars

\* ---- the interpolation at the end of evaluate ----

PhaseTotal == 24

\* i16::saturating_mul
SaturatingMul(a, b) == Max({EvalMin, Min({EvalMax, a * b})})

\* i16::saturating_div: the quotient cut toward zero; only MIN / -1 saturates
SaturatingDiv(a, b) == Max({EvalMin, Min({EvalMax, DivTrunc(a, b)})})

\* The value of evaluate before the side to move is looked at
Taper(mg, eg, game_phase) ==
    LET mg_game_phase == Min({PhaseTotal, game_phase})
        endgame_game_phase == PhaseTotal - mg_game_phase
    IN  SaturatingDiv(SaturatingAdd(SaturatingMul(mg, mg_game_phase),
                                    SaturatingMul(eg, endgame_game_phase)),
                      PhaseTotal)

\* The end of evaluate: the interpolation, from the side to move
TaperedEval(mg, eg, game_phase, side) ==
    IF side = "White" THEN Taper(mg, eg, game_phase) ELSE -Taper(mg, eg, game_phase)

MaxPhase == 26     \* largest sum of the phase weights; evaluate cuts it at 24

\* Sums of piece-square values, bonuses and the tempo: around zero, on both sides of
\* the sum whose product with 24 leaves the 16 bits, and of several thousand
Sums ==
    {sign * x : sign \in {-1, 1},
                x \in {0, 7, 100, EvalMax \div PhaseTotal, (EvalMax \div PhaseTotal) + 1,
                       2 * (EvalMax \div PhaseTotal), 4000}}

InitTaper ==
    /\ EngineIdle
    /\ call \in [fn : {"evaluate"}, mg : Sums, eg : Sums, game_phase : 0 .. MaxPhase,
                  side : {"White", "Black"}, value : {None}]

\* One call of evaluate, from the sums on
TaperCall ==
    /\ call.fn = "evaluate"
    /\ call.value = None
    /\ call' = [call EXCEPT
                    !.value = Some(TaperedEval(call.mg, call.eg, call.game_phase,
                                               call.side))]
    /\ UNCHANGED <<ttVars, threadVars>>

SpecTaper == InitTaper /\ [][TaperCall]_vars

---------------------------------------------------------------------------
(***************************************************************************)
(* Properties of the transposition table, checked under SpecTT.            *)
(***************************************************************************)

\* Every key whose index part and first bit above it the model distinguishes.
ProbeKeys == 0 .. (2 * LowMod - 1)

\* The bucket the last inserted entry was stored in.
LastBucket == tt.table[HashIdx(tt, ttLast.entry.key)]

AfterInsert == ttLast.op = "insert" /\ TableLen(tt) > 0

\* C6: in every table state reached by insert, clear and resize, and for every key k,
\* an entry returned by probe(k) has key k.
C6_ProbedKeyMatches ==
    \A k \in ProbeKeys :
        IsSome(Probe(tt, k)) => Unwrap(Probe(tt, k)).key = k

\* C6 witness: probe finds a key behind a slot of the same bucket that holds another
\* key (an index match alone would have returned the other entry).
C6_Witness ==
    \E k \in ProbeKeys :
        /\ IsSome(Probe(tt, k))
        /\ Unwrap(Probe(tt, k)).depth > 0
        /\ tt.table[HashIdx(tt, k)][0].key /= k
        /\ tt.table[HashIdx(tt, k)][0].depth > 0

\* C7 (as claimed): right after insert(e) on a non-empty table, probe(e.key) returns
\* exactly the entry e, also when the bucket already held an entry with that key.
C7_ProbeReturnsInserted ==
    AfterInsert => Probe(tt, ttLast.entry.key) = Some(ttLast.entry)

\* C8 (as claimed): probe(k) returns an entry only if an entry with key k was
\* inserted since the last clear or resize; after clear, and on a fresh table, that
\* is no key at all, key 0 included.
C8_ProbeOnlyInserted ==
    \A k \in ProbeKeys : IsSome(Probe(tt, k)) => k \in ttKeys

\* The lowest-indexed slot among those of minimum depth.
LowestSlot(bucket) ==
    CHOOSE j \in Slots :
        /\ \A i \in Slots : bucket[i].depth >= bucket[j].depth
        /\ \A i \in Slots : i < j => bucket[i].depth > bucket[j].depth

\* C9: insert(e) overwrites with e the lowest-indexed slot of minimum depth in the
\* bucket e.key addresses, and changes no other slot and no other bucket.
C9_InsertOverwritesLowestDepth ==
    [][(ttLast'.op = "insert" /\ ttOps' = ttOps + 1 /\ TableLen(tt) > 0) =>
          LET e == ttLast'.entry
              index == HashIdx(tt, e.key)
          IN  /\ tt'.table =
                   [tt.table EXCEPT ![index][LowestSlot(tt.table[index])] = e]
              /\ tt'.total_entries = tt.total_entries]_vars

\* C9 witness: an insert has overwritten a stored entry (the bucket was full) in a
\* slot other than the first.
C9_Witness ==
    /\ AfterInsert
    /\ ttLast.slot >= 1
    /\ ttLast.was.depth >= 1
    /\ LastBucket[ttLast.slot] = ttLast.entry

\* Number of slots of the table whose depth is not zero.
NonEmptySlots(t) ==
    Cardinality({bi \in (DOMAIN t.table) \X Slots : t.table[bi[1]][bi[2]].depth /= 0})

\* C10: used_entries is the number of slots with non-zero depth and is at most
\* total_entries; hashfull() is floor(1000 * used_entries / total_entries), within
\* 0..1000 (0 for a table without buckets).
C10_UsedEntriesAndHashfull ==
    /\ tt.used_entries = NonEmptySlots(tt)
    /\ tt.used_entries <= tt.total_entries
    /\ tt.total_entries = ENTRIES * TableLen(tt)
    /\ Hashfull(tt) \in 0 .. 1000
    /\ Hashfull(tt) = IF tt.total_entries = 0 THEN 0
                      ELSE (1000 * tt.used_entries) \div tt.total_entries

\* C10 witness: a full table in which an insert has just replaced a stored entry.
C10_Witness ==
    /\ AfterInsert
    /\ ttLast.was.depth >= 1
    /\ tt.used_entries = tt.total_entries
    /\ Hashfull(tt) = 1000

---------------------------------------------------------------------------
(***************************************************************************)
(* Properties of the threads, checked under Spec and FairSpec.             *)
(***************************************************************************)

\* The search reports among the messages of a channel, in channel order.
SearchReportsOf(q, isReport(_)) ==
    LET kept == SelectSeq(q, isReport)
    IN  [i \in 1 .. Len(kept) |-> kept[i].rep]

IsSearchReport(m) == m.src = "Search"

IsForwarded(m) == m.t \in {"Summary", "BestMove"}

\* The lines of search reports printed so far.
Printed == SearchReportsOf(out, IsForwarded)

\* Every search report sent so far: those printed, then those waiting for the writer,
\* then those waiting for the coordinator.
Stream ==
    Printed \o SearchReportsOf(uciq, IsForwarded)
            \o SearchReportsOf(reportq, IsSearchReport)

\* The worker is inside iterative_deepening.
SearchRunning == wpc \in {"negamax", "id_boundary", "id_finish"}

\* C1: the BestMove report of a search comes after every Summary report of that
\* search, where it is sent, where it is forwarded and where it is printed: no info
\* line of a search follows its bestmove line.
C1_BestMoveAfterLastSummary ==
    \A i, j \in DOMAIN Stream :
        (/\ Stream[i].t = "BestMove"
         /\ Stream[j].t = "Summary"
         /\ Stream[i].sid = Stream[j].sid) => j < i

\* A search whose info line and bestmove line have both been printed.
C1_Witness ==
    \E i, j \in DOMAIN Printed :
        /\ i < j
        /\ Printed[i].t = "Summary"
        /\ Printed[j].t = "BestMove"
        /\ Printed[i].sid = Printed[j].sid

\* C2: the Summary reports of one search carry the depths 1, 2, 3, .. in the order
\* they are sent, forwarded and printed.
C2_SummaryDepthsInOrder ==
    \A i \in DOMAIN Stream :
        Stream[i].t = "Summary" =>
            Stream[i].depth =
                1 + Cardinality({j \in 1 .. (i - 1) :
                                    /\ Stream[j].t = "Summary"
                                    /\ Stream[j].sid = Stream[i].sid})

\* A search with two info lines printed, the second for depth 2.
C2_Witness ==
    \E i, j \in DOMAIN Printed :
        /\ i < j
        /\ Printed[i].t = "Summary"
        /\ Printed[j].t = "Summary"
        /\ Printed[i].sid = Printed[j].sid
        /\ Printed[j].depth = 2

\* A Stop command is in the worker's inbox while a search is running.
StopPending == SearchRunning /\ \E i \in DOMAIN searchq : searchq[i].t = "Stop"

\* C3: when a Stop is in the worker's inbox during a search, the search eventually
\* ends with exactly one BestMove report and the worker is back at the top of its
\* loop (or has left it, if told to quit as well).
C3_StopEndsSearch == StopPending ~> (wpc \in {"recv", "exit"} /\ bestCount = 1)

\* C4: a search on a root position without a legal move does not end the worker
\* thread, and once it is over it has sent its BestMove report.
C4_NoLegalMoveStillAnswers ==
    (sid > 0 /\ LegalMoves(searchRoot) = << >>) =>
        /\ wpc /= "panicked"
        /\ ~SearchRunning => bestCount = 1

\* ---- make_move and unmake_move over a whole search ----

\* The root call of negamax has returned to iterative_deepening and the body of the
\* loop has not run yet.
AtBoundary == wpc = "id_boundary"

\* ply, the history and the board are those the search started with
RootRestored ==
    /\ ss.ply = 0
    /\ history = rootHistory
    /\ board = searchRoot

\* What a step of the search does to the history: a step that goes one ply down
\* has pushed the hash of the position it went to, a step that comes one ply up
\* has popped the last entry, and a step that stays at its ply (a move made and
\* taken back at once, or no move at all) leaves history and board as they were.
MakeUnmakeBalanced ==
    wpc = "negamax" =>
        \/ /\ ss'.ply = ss.ply + 1
           /\ history' = Append(history, BoardHash(board'))
        \/ /\ ss'.ply = ss.ply - 1
           /\ history /= << >>
           /\ history' = SubSeq(history, 1, Len(history) - 1)
        \/ /\ ss'.ply = ss.ply
           /\ history' = history
           /\ board' = board

\* C5: at every return of the root negamax call (completed, cut short by
\* terminate, after beta cutoffs, after moves skipped by futility) ply is 0 and
\* the history stack and the board are those of the start of the search; every
\* make_move pushes exactly one history entry and every unmake_move pops exactly
\* one.
C5_SearchRestoresRoot == [](AtBoundary => RootRestored) /\ [][MakeUnmakeBalanced]_vars

\* A second iteration has returned after a futility skip, a beta cutoff and a
\* table hit, cut short by terminate, on a root with a history of its own or not
C5_Witness ==
    /\ AtBoundary
    /\ id.depth = 2
    /\ {"futility", "cutoff", "tt", "terminated"} \subseteq seen
    /\ IsSome(ss.terminate)
    /\ RootRestored

---------------------------------------------------------------------------
(***************************************************************************)
(* Entry::get, checked under SpecGet.                                      *)
(***************************************************************************)

\* Entry::get has been applied
GetDone == call.fn = "get" /\ call.result /= None

GetValue == Unwrap(call.result)[1]

\* The score the description of Entry::get asks for
GetExpected ==
    LET e == call.entry
    IN  IF e.depth < call.depth THEN None
        ELSE CASE e.flag = "Exact" ->
                     Some(CASE e.score > EVAL_INFINITY - 256 -> e.score - call.ply
                            [] e.score < 256 - EVAL_INFINITY -> e.score + call.ply
                            [] OTHER -> e.score)
               [] e.flag = "Alpha" /\ e.score <= call.alpha -> Some(call.alpha)
               [] e.flag = "Beta" /\ e.score >= call.beta -> Some(call.beta)
               [] OTHER -> None

\* C11: Entry::get(depth, ply, alpha, beta) always returns the stored best move,
\* and a score only when stored_depth >= depth: for an Exact entry the stored
\* score, less ply above INFINITY - 256, plus ply below 256 - INFINITY; for an
\* Alpha entry alpha iff the stored score <= alpha; for a Beta entry beta iff the
\* stored score >= beta; no score in every other case.
C11_EntryGet ==
    GetDone =>
        /\ Unwrap(call.result)[2] = call.entry.best_move
        /\ GetValue = GetExpected

\* A mate score stored deep enough is returned less the ply
C11_Witness ==
    /\ GetDone
    /\ call.entry.flag = "Exact"
    /\ call.entry.depth >= call.depth
    /\ call.depth > 0
    /\ call.entry.score > EVAL_INFINITY - 256
    /\ call.ply > 0
    /\ GetValue = Some(call.entry.score - call.ply)

---------------------------------------------------------------------------
(***************************************************************************)
(* hash_idx, checked under SpecIdx.                                        *)
(***************************************************************************)

\* C12: for every key of 64 bits and every bucket count n the Hash option allows,
\* 1 <= n < 2^32, and the index ((key & 0xFFFF_FFFF) * n) >> 32 is computed
\* without overflow of 64 bits and is less than n: probe and insert never index
\* outside the table.
C12_IndexInRange ==
    call.fn = "hash_idx" =>
        LET n == TableLen(tt)
        IN  /\ 1 <= n
            /\ n < LowMod
            /\ (call.key % LowMod) * n < WordMod
            /\ call.op /= "none" =>
                   /\ call.index = ((call.key % LowMod) * n) \div LowMod
                   /\ call.index < n
                   /\ call.in_table

\* The largest table, a key with all low bits set and high bits too: the insert
\* lands in the last bucket
C12_Witness ==
    /\ call.fn = "hash_idx"
    /\ call.op = "insert"
    /\ TableLen(tt) = TableLen(TTNew(HashMax))
    /\ call.key % LowMod = LowMod - 1
    /\ call.key >= LowMod
    /\ call.index = TableLen(tt) - 1
    /\ tt.used_entries = 1

---------------------------------------------------------------------------
(***************************************************************************)
(* The table over several searches, checked under Spec.                    *)
(***************************************************************************)

\* iterative_deepening is about to make the first negamax call of a `go`
AtSearchStart == wpc = "negamax" /\ id.depth = 1 /\ visited = 0

\* Every slot zeroed and none counted as used
TableEmpty ==
    /\ tt.used_entries = 0
    /\ \A b \in DOMAIN tt.table : tt.table[b] = BucketDefault

\* The slots that hold an entry
SlotsInUse ==
    {<<b, i>> \in (DOMAIN tt.table) \X Slots : tt.table[b][i] /= DefaultEntry}

\* C13: at the start of every search, before the first negamax call of the go, the
\* table is empty (all slots zeroed, used_entries = 0); the entries a running
\* search can be handed are those it stored itself, at most one for each root call
\* it has made.
C13_TableEmptyAtSearchStart ==
    /\ AtSearchStart => TableEmpty
    /\ SearchRunning => Cardinality(SlotsInUse) <= id.depth

\* A second search starts after a first one that reported a table in use
C13_Witness ==
    /\ AtSearchStart
    /\ sid = 2
    /\ \E i \in DOMAIN Stream :
           /\ Stream[i].t = "Summary"
           /\ Stream[i].sid = 1
           /\ Stream[i].hashfull > 0

---------------------------------------------------------------------------
(***************************************************************************)
(* The time budget, checked under SpecBudget.                              *)
(***************************************************************************)

BudgetDone == call.fn = "allocate" /\ call.allocated /= None

\* Clock and increment of the side to move
BudgetClock ==
    IF call.side = "White" THEN call.gametime.white_time ELSE call.gametime.black_time

BudgetInc ==
    IF call.side = "White" THEN call.gametime.white_increment
    ELSE call.gametime.black_increment

\* The base slice: clock/mtg, clock when mtg = 0, clock/20 without mtg
BudgetBase ==
    LET mtg == call.gametime.moves_to_go
    IN  CASE mtg = None -> DivTrunc(BudgetClock, 20)
          [] mtg = Some(0) -> BudgetClock
          [] OTHER -> DivTrunc(BudgetClock, Unwrap(mtg))

\* C14: in GameTime mode the allocated budget is max(0, base + inc - 100 ms), with
\* clock and inc those of the side to move and base = clock/mtg when moves-to-go
\* is present and not zero, clock when it is zero, clock/20 when it is absent; a
\* negative result becomes zero.
C14_GameTimeBudget ==
    BudgetDone => Unwrap(call.allocated) = Max({0, BudgetBase + BudgetInc - 100})

\* Black to move with the clocks apart, moves-to-go 3: a third of black's clock
\* plus black's increment less the margin
C14_Witness ==
    /\ BudgetDone
    /\ call.side = "Black"
    /\ call.gametime.black_time = 6000
    /\ call.gametime.white_time = 2000
    /\ call.gametime.moves_to_go = Some(3)
    /\ call.gametime.black_increment = 40
    /\ call.gametime.white_increment = 0
    /\ call.allocated = Some(1940)

\* A lost clock: the negative slice is cut to zero
C14_WitnessClamped ==
    /\ BudgetDone
    /\ BudgetBase + BudgetInc - 100 < 0
    /\ call.allocated = Some(0)

---------------------------------------------------------------------------
(***************************************************************************)
(* Depth-limited searches, checked under SpecDepth and Spec.               *)
(***************************************************************************)

\* The worker's search_mode is that of search number sid, which is running or was
\* the last to run.
ModeIsCurrent ==
    /\ sid > 0
    /\ IsSome(search_mode)
    /\ wpc \in {"negamax", "id_boundary", "id_finish", "recv", "panicked"}

DepthMode == ModeIsCurrent /\ Unwrap(search_mode).kind = "Depth"

\* min(N, 128), 128 being MaxIterDepth here
LastDepth == Min({Unwrap(search_mode).n, MaxIterDepth})

\* Where the reports of kind t of search s stand in the stream of reports
ReportsOf(s, t) == {i \in DOMAIN Stream : Stream[i].sid = s /\ Stream[i].t = t}

\* C15: in Depth(N) mode, no stop or quit arriving, the search emits exactly
\* min(N, 128) Summary reports, for the depths 1 .. min(N, 128), followed by one
\* BestMove report whose move is the first move of the principal variation of the
\* last of these iterations; no Summary is deeper than N or than 128.
C15_DepthModeReports ==
    DepthMode =>
        /\ \A i \in ReportsOf(sid, "Summary") : Stream[i].depth <= LastDepth
        /\ wpc /= "panicked"
        /\ wpc = "recv" =>
               /\ {Stream[i].depth : i \in ReportsOf(sid, "Summary")} = 1 .. LastDepth
               /\ Cardinality(ReportsOf(sid, "Summary")) = LastDepth
               /\ Cardinality(ReportsOf(sid, "BestMove")) = 1
               /\ \A b \in ReportsOf(sid, "BestMove") :
                      \A i \in ReportsOf(sid, "Summary") :
                          /\ i < b
                          /\ Stream[i].depth = LastDepth =>
                                 Stream[b].mv = Head(Stream[i].mv).uci

\* The same, for searches on a root that has a legal move
C15_OnPlayableRoot == (LegalMoves(searchRoot) /= << >>) => C15_DepthModeReports

\* C16: in Depth(N) mode the driver never calls negamax for an iteration at a
\* depth greater than N.
C16_NoIterationBeyondDepth ==
    (DepthMode /\ SearchRunning /\ visited > 0) => ss.depth <= Unwrap(search_mode).n

---------------------------------------------------------------------------
(***************************************************************************)
(* Iterations cut short, checked under Spec.                               *)
(***************************************************************************)

\* This step is the driver's between the return of the root negamax call and the
\* next test of its loop.
BoundaryStep == wpc = "id_boundary" /\ wpc' /= "id_boundary"

\* An iteration whose terminate flag is set when the driver looks at it sends no
\* report and leaves best_move alone; any other sends its Summary and takes the
\* first move of its principal variation.
IterationOutcome ==
    BoundaryStep =>
        IF IsSome(ss'.terminate)
        THEN reportq' = reportq /\ id'.best_move = id.best_move
        ELSE /\ reportq' = Append(reportq, ReportSearch(
                               Summary(sid, id.depth, Hashfull(tt), id.root_pv)))
             /\ id.root_pv /= << >> => id'.best_move = Some(Head(id.root_pv))

\* best_move changes nowhere else during a search
BestMoveKept ==
    (id'.best_move /= id.best_move) => (BoundaryStep \/ wpc = "lock_tt")

\* The BestMove of the search that runs or ran last carries the first move of the
\* principal variation of its last Summary, or the first legal move of the root
\* when it sent no Summary
BestMoveIsLastCompleted ==
    \A b \in ReportsOf(sid, "BestMove") :
        LET sums == ReportsOf(sid, "Summary")
        IN  IF sums = {}
            THEN Stream[b].mv = LegalMoves(searchRoot)[1].uci
            ELSE Stream[b].mv = Head(Stream[Max(sums)].mv).uci

\* C17: an iteration during or right after which the terminate flag became set
\* never produces a Summary report and never changes the selected best move: the
\* move in BestMove is the first PV move of the last iteration that finished with
\* the flag unset, or the first legal move if there is no such iteration.
C17_TerminatedIterationDiscarded ==
    /\ []BestMoveIsLastCompleted
    /\ [][IterationOutcome /\ BestMoveKept]_vars

\* A search stopped in its second iteration, after that iteration had put another
\* move at the head of the principal variation: the BestMove is the first
\* iteration's
C17_Witness ==
    /\ wpc = "recv"
    /\ ss.terminate = Some("Stop")
    /\ ReportsOf(sid, "Summary") /= {}
    /\ \E b \in ReportsOf(sid, "BestMove") :
           /\ id.root_pv /= << >>
           /\ Stream[b].mv /= Head(id.root_pv).uci
           /\ id.best_move = Some(Head(Stream[Max(ReportsOf(sid, "Summary"))].mv))

---------------------------------------------------------------------------
(***************************************************************************)
(* The Hash option, checked under Spec.                                    *)
(***************************************************************************)

\* A SetHash command is on its way to the worker
SetHashPending == \E i \in DOMAIN searchq : searchq[i].t = "SetHash"

\* The table has the size the coordinator's Hash option asks for
TableMatchesOption == TableLen(tt) = TableLen(TTNew(hashOpt))

\* C18: a SetHash that reaches the worker while a search is running is deferred,
\* not lost: by the start of the next search the table has been resized, so that
\* whenever a search starts with no SetHash still on its way the table has the
\* size of the coordinator's stored Hash option.
C18_SetHashHonoured == (AtSearchStart /\ ~SetHashPending) => TableMatchesOption

(***************************************************************************)
(* C19.  A refused `setoption name Hash`.                                  *)
(***************************************************************************)

\* The coordinator takes a message of the reader's off its channel
CoordTakes(src, t) == CoordHas(src, t) /\ reportq' = Tail(reportq)

\* The value names no size from the option's minimum to its maximum
BadHashValue(value) ==
    value = None \/ Unwrap(value) \notin {Decimal(n) : n \in HashMin .. HashMax}

\* One line more on the diagnostic stream, and it starts with "error"
ErrorLineEmitted ==
    /\ Len(errout') = Len(errout) + 1
    /\ SubSeq(errout', 1, Len(errout)) = errout
    /\ errout'[Len(errout')].prefix = "error"

SetOptionRefused ==
    /\ hashOpt' = hashOpt
    /\ searchq' = searchq
    /\ tt' = tt
    /\ ErrorLineEmitted
    /\ cpc' = "recv"

\* C19: when the coordinator handles a setoption Hash whose value is missing, not a
\* number, below the minimum or above the maximum, the stored option keeps its
\* value, nothing is sent to the search worker, the table is as it was, one error
\* line is written, and the coordinator is back at its receive.
C19_BadHashRecovered ==
    [][(CoordTakes("Uci", "SetOption") /\ BadHashValue(Head(reportq).req.value))
           => SetOptionRefused]_vars

\* Refused values after an accepted one and a search: the option and the table keep
\* the accepted size, the table keeps its entries, nothing is on its way
C19_Witness ==
    /\ Len(errout) = 1
    /\ errout[1].prefix = "error"
    /\ hashOpt = MaxMb
    /\ TableMatchesOption
    /\ tt.used_entries > 0
    /\ searchq = << >>
    /\ reportq = << >>
    /\ hostSent = MaxRequests

(***************************************************************************)
(* C20.  A refused `position`.                                             *)
(***************************************************************************)

\* The report the reader sent last
LastReport == reportq'[Len(reportq')]

\* The reader turns a refused position line into an error report
BadPositionReported ==
    \A r \in BadPositionLines :
        ReaderRead(r) => (LastReport.src = "Error" /\ LastReport.err /= << >>)

\* Handling the error report changes neither board nor history
PositionRefused ==
    /\ board' = board
    /\ history' = history
    /\ ErrorLineEmitted
    /\ cpc' = "recv"

\* Board and history are the default ones or those of an accepted line
AcceptedPositions ==
    {<<BoardDefault, << >> >>, <<"mid", <<BoardHash("mid")>> >>,
     <<"w1", <<BoardHash("s1"), BoardHash("w1")>> >>}

\* C20: a position line with a bad FEN or with a move that cannot be played, first
\* or later in its list, reaches the coordinator as an error report only; handling
\* it leaves board and history as they were, writes one error line and leaves the
\* coordinator at its receive; and the board and history are never those of a
\* part of a refused line.
C20_BadPositionRecovered ==
    /\ [][BadPositionReported]_vars
    /\ [][CoordTakes("Error", "") => PositionRefused]_vars
    /\ [](cpc = "recv" => <<board, history>> \in AcceptedPositions)

\* A line with a move that cannot be played after one that can, refused after an
\* accepted line: board and history are those of the accepted line
C20_Witness ==
    /\ board = "w1"
    /\ history = <<BoardHash("s1"), BoardHash("w1")>>
    /\ Len(errout) = 1
    /\ errout[1] = Diag("error", <<"e7e5", ": ", "illegal move">>)
    /\ reportq = << >>

(***************************************************************************)
(* C21.  quit ends the four loops.                                         *)
(***************************************************************************)

\* `while !quit` of the reader has ended
ReaderEnded == readerQuit

\* main_loop has returned or unwound
CoordEnded == cpc \in {"done", "failed", "panicked"}

\* `while !quit` of the writer has ended
WriterEnded == writerQuit

\* The worker's thread has left its loop or has died
WorkerEnded == wpc \in {"exit", "panicked"}

AllLoopsEnded == ReaderEnded /\ CoordEnded /\ WriterEnded /\ WorkerEnded

\* C21: once the reader has read quit, the reader, the coordinator, the writer and
\* the search worker all eventually end their loops, whether the worker is idle or
\* searching and whatever lines came before.
C21_QuitEndsAllLoops == readerQuit ~> AllLoopsEnded

\* The same where no search panics: every search starts on a board with a legal move
C21_OnPlayableRoots ==
    [](sid > 0 => LegalMoves(searchRoot) /= << >>) => (readerQuit ~> AllLoopsEnded)

(***************************************************************************)
(* C22.  The three locks during a search.                                  *)
(***************************************************************************)

AllLocks == {"board", "history", "tt"}

\* C22: from before the first negamax call of a search until its BestMove has been
\* computed and sent the worker holds the locks of the board, the history and the
\* table; no step of a handler that locks one of them (position, ucinewgame, make,
\* eval, board, probe) is taken meanwhile, and board and history stay as they are.
C22_LocksHeldDuringSearch ==
    /\ [](SearchRunning => locks = AllLocks)
    /\ [][CoordLocks => ~SearchRunning]_vars
    /\ [][(SearchRunning /\ SearchRunning') => (board' = board /\ history' = history)]_vars

\* `make` has played its move on the board, a search has started before the hash
\* was pushed, and the handler waits for the history while the search runs
C22_Witness ==
    /\ SearchRunning
    /\ visited > 0
    /\ cpc = "make_history"
    /\ board = "mid"
    /\ history = << >>

(***************************************************************************)
(* C23.  `score mate N` and `score cp`.                                    *)
(***************************************************************************)

ScoreDone == call.fn = "score" /\ call.printed /= None

\* ceil(x / 2)
CeilHalf(x) == (x + 1) \div 2

\* The attribute C23 states for the score cp
ScoreExpected(cp) ==
    IF Abs(cp) > EVAL_INFINITY - MateBand
    THEN [kind |-> "mate", n |-> Signum(cp) * CeilHalf(EVAL_INFINITY - Abs(cp))]
    ELSE [kind |-> "cp", n |-> cp]

\* The scores the root call of negamax can return: its window is -INFINITY..INFINITY
RootScore == Abs(call.cp) <= EVAL_INFINITY

\* C23: for every score cp of a Summary the writer prints `mate N` exactly when
\* |cp| > INFINITY - 256, with N = sign(cp) * ceil((INFINITY - |cp|) / 2), and
\* `cp <cp>` otherwise.
C23_ScorePrinted ==
    (ScoreDone /\ RootScore) => Unwrap(call.printed) = ScoreExpected(call.cp)

\* The same for the scores from -INFINITY to INFINITY but INFINITY - 255
C23_OnOtherScores ==
    (ScoreDone /\ RootScore /\ call.cp /= EVAL_INFINITY - (MateBand - 1))
        => Unwrap(call.printed) = ScoreExpected(call.cp)

---------------------------------------------------------------------------
\* ---- go movetime with a negative duration ----

\* The search under way, or the last one, was asked for with a negative move time.
NegativeMoveTime ==
    /\ sid > 0
    /\ IsSome(search_mode)
    /\ Unwrap(search_mode).kind = "MoveTime"
    /\ Unwrap(search_mode).n < 0

\* C24: a search started by go movetime with a negative duration does not end the
\* worker thread, and once it is over it has sent its BestMove report.
C24_NegativeMoveTimeAnswers ==
    NegativeMoveTime =>
        /\ wpc /= "panicked"
        /\ ~SearchRunning => bestCount = 1

\* The same for the move times that are not negative
C24_OnOtherMoveTimes ==
    (/\ sid > 0
     /\ IsSome(search_mode)
     /\ Unwrap(search_mode).kind = "MoveTime"
     /\ Unwrap(search_mode).n >= 0) =>
        /\ wpc /= "panicked"
        /\ ~SearchRunning => bestCount = 1

---------------------------------------------------------------------------
\* ---- the range of the static exchange evaluation ----

SeeDone == call.fn = "see" /\ IsSome(call.value)

\* The opponent of the capturing side attacks the target square.
OpponentAttacks == \E a \in call.attackers : a.c = "Black"

\* C25: with V0 the value of the piece on the target square and M the value of the
\* capturing piece, see returns a value from V0 - M to V0, and V0 when the opponent
\* has no attacker of the target square.
C25_SeeRange ==
    SeeDone =>
        LET V0 == piece_value(call.victim)
            M == piece_value(call.mover)
            v == Unwrap(call.value)
        IN  /\ V0 - M <= v
            /\ v <= V0
            /\ ~OpponentAttacks => v = V0

\* An exchange of three captures and more whose value is strictly inside the range,
\* with a slider that a capture uncovers
C25_Witness ==
    /\ SeeDone
    /\ OpponentAttacks
    /\ call.hidden /= {}
    /\ \E a \in call.attackers : a.c = "White"
    /\ Unwrap(call.value) > piece_value(call.victim) - piece_value(call.mover)
    /\ Unwrap(call.value) < piece_value(call.victim)

---------------------------------------------------------------------------
\* ---- the value of evaluate ----

TaperDone == call.fn = "evaluate" /\ IsSome(call.value)

\* (mg * phase + eg * (24 - phase)) / 24 cut toward zero, from the side to move
TaperExpected ==
    LET phase == Min({PhaseTotal, call.game_phase})
        white == DivTrunc((call.mg * phase) + (call.eg * (PhaseTotal - phase)),
                          PhaseTotal)
    IN  IF call.side = "White" THEN white ELSE -white

\* C26: for the sums mg and eg of a position and every phase from 0 to 24 evaluate
\* returns (mg * phase + eg * (24 - phase)) / 24 cut toward zero, negated when Black
\* is to move.
C26_TaperedEval ==
    (TaperDone /\ call.game_phase <= PhaseTotal) =>
        Unwrap(call.value) = TaperExpected

\* Neither product and not their sum leaves the 16 bits.
ProductsFit ==
    LET phase == Min({PhaseTotal, call.game_phase})
        fits(x) == EvalMin <= x /\ x <= EvalMax
    IN  /\ fits(call.mg * phase)
        /\ fits(call.eg * (PhaseTotal - phase))
        /\ fits((call.mg * phase) + (call.eg * (PhaseTotal - phase)))

\* The same where the products and their sum are 16-bit values
C26_OnProductsThatFit == (TaperDone /\ ProductsFit) => Unwrap(call.value) = TaperExpected

---------------------------------------------------------------------------
\* ---- what negamax returns and the windows it is called with ----

\* A call of negamax has just returned and the search has not been terminated; the
\* board and the ply are those of its node.
NegamaxReturned ==
    /\ wpc = "negamax"
    /\ stack /= << >>
    /\ Top.pc = "done"
    /\ Top.callee = "negamax"
    /\ ss.terminate = None

\* C27: the value v of a call negamax(alpha, beta) of a search that is not
\* terminated satisfies alpha <= v <= beta.
C27_FailHard ==
    NegamaxReturned =>
        /\ Top.window[1] <= Top.value
        /\ Top.value <= Top.window[2]

IsEval(x) == EvalMin <= x /\ x <= EvalMax

\* C28: every call of negamax is made with alpha < beta, and the bounds of the
\* windows, the negated bounds and the negated values are 16-bit numbers.
C28_WindowOpen ==
    \A i \in DOMAIN stack :
        LET f == stack[i]
        IN  /\ f.callee = "negamax" => f.window[1] < f.window[2]
            /\ f.fn = "negamax" =>
                   /\ IsEval(f.alpha) /\ IsEval(f.beta)
                   /\ IsEval(-f.alpha - 1) /\ IsEval(-f.beta)
                   /\ f.pc /= "done" => f.alpha < f.beta
            /\ f.pc = "done" => IsEval(-f.value)

\* A scout call with a window of width one below a node whose alpha a move raised
C28_Witness ==
    /\ Len(stack) >= 2
    /\ Top.fn = "negamax"
    /\ Top.pc = "entry"
    /\ Top.window[2] = Top.window[1] + 1
    /\ Caller.alpha > Caller.window[1]
    /\ Caller.stage = "scout"

\* C29: a call of negamax on a position without a legal move returns
\* -INFINITY + ply if the side to move is in check, else 0.
C29_NoLegalMoveValue ==
    (NegamaxReturned /\ LegalMoves(board) = << >>) =>
        Top.value = IF InCheck(board) THEN ss.ply - EVAL_INFINITY ELSE 0

---------------------------------------------------------------------------
\* ---- the categories of the move order ----

OrderDone == call.fn = "order_moves" /\ IsSome(call.ordered)

IsKiller(mv) == \E i \in 1 .. 2 : call.killers[i] = mv.uci

IsUnderPromotion(mv) == mv.promotion \notin {NoMove, "q"}

\* The category of a move, highest first: 6 the move of the table, 5 a good capture,
\* 4 a killer, 3 a quiet move, 2 a losing capture, 1 an under-promotion
Category(mv) ==
    IF call.pv /= NoMove /\ mv.uci = call.pv THEN 6
    ELSE IF IsUnderPromotion(mv) THEN 1
    ELSE IF mv.capture THEN (IF mv.see >= 0 THEN 5 ELSE 2)
    ELSE IF IsKiller(mv) THEN 4
    ELSE 3

\* The list is in the order of rank, and captures of one category in the order of
\* their exchange value.
OrderedBy(rank(_), l) ==
    \A i, j \in DOMAIN l :
        i < j => /\ rank(l[i]) >= rank(l[j])
                 /\ (rank(l[i]) = rank(l[j]) /\ Category(l[i]) \in {2, 5})
                        => l[i].see >= l[j].see

SameMoves(l, m) == Len(l) = Len(m) /\ {l[i] : i \in DOMAIN l} = {m[i] : i \in DOMAIN m}

\* C30: order_moves puts the moves in the order of the categories: the move of the
\* table, good captures by descending exchange value, killers, quiet moves, losing
\* captures by descending exchange value, under-promotions.
C30_CategoryOrder ==
    OrderDone =>
        /\ SameMoves(Unwrap(call.ordered), call.moves)
        /\ OrderedBy(Category, Unwrap(call.ordered))

\* The categories with the losing captures above the quiet moves
CodeRank(mv) ==
    IF Category(mv) = 2 THEN 3 ELSE IF Category(mv) = 3 THEN 2 ELSE Category(mv)

\* The same with the losing captures before the quiet moves that are not killers
C30_OnLosingCapturesFirst ==
    OrderDone =>
        /\ SameMoves(Unwrap(call.ordered), call.moves)
        /\ OrderedBy(CodeRank, Unwrap(call.ordered))

---------------------------------------------------------------------------
\* ---- the futility flag of a node ----

FutileDone == call.fn = "futile" /\ IsSome(call.value)

\* C31: the futility flag of a node is true exactly when depth = 1 and
\* static_eval + 293 <= alpha, or depth = 2 and static_eval + 620 <= alpha; it is
\* false at every depth from 3 on.
C31_FutilityFlag ==
    FutileDone =>
        (Unwrap(call.value) <=>
            \/ call.depth = 1 /\ call.static_eval + 293 <= call.alpha
            \/ call.depth = 2 /\ call.static_eval + 620 <= call.alpha)

\* The flag the array index gives: the second margin at depth 1, none from depth 2
C31_OnIndexedMargins ==
    FutileDone =>
        (Unwrap(call.value) <=>
            call.depth = 1 /\ call.static_eval + 620 <= call.alpha)

---------------------------------------------------------------------------
\* ---- the killer slots ----

KillerRun == call.fn = "killers"

\* The moves in the killer slots of the plies at which cutoffs happen
KillersHeld ==
    {ss.killer_moves[p][i] : p \in 0 .. MaxKillerPly, i \in 1 .. 2} \ {NoMove}

\* The moves of the pool that take a piece, en passant too, or promote
CapturesAndPromotions ==
    {m.uci : m \in {x \in CutoffPool : x.capture \/ x.promotion /= NoMove \/ x = EnPassant}}

\* C32: after any sequence of beta cutoffs no killer slot holds a move that was a
\* capture, en passant included, or a promotion where it caused its cutoff.
C32_KillersAreQuiet == KillerRun => KillersHeld \cap CapturesAndPromotions = {}

\* The same for the moves onto an occupied square only
C32_OnOccupiedTargets ==
    KillerRun => KillersHeld \cap {m.uci : m \in {x \in CutoffPool : x.capture}} = {}

\* C34: after any sequence of calls of store_killer_move the two slots of a ply do
\* not hold the same move: both are empty, or the first is set and the second is
\* empty or another move; the first is the move stored last for the ply.
C34_KillerSlots ==
    KillerRun =>
        \A p \in 0 .. MaxKillerPly :
            LET first == ss.killer_moves[p][1]
                second == ss.killer_moves[p][2]
            IN  /\ \/ first = NoMove /\ second = NoMove
                   \/ first /= NoMove /\ second /= first
                /\ first = call.last[p]

\* Both slots of a ply are filled and the move stored last is stored once more
C34_Witness ==
    /\ KillerRun
    /\ ss.killer_moves[1] = <<"b2b3", "a2a3">>
    /\ ss.killer_moves[0] = <<"a2a3", "b2b3">>
    /\ call.last[0] = "a2a3"

---------------------------------------------------------------------------
\* ---- when a position counts as repeated ----

RepetitionDone == call.fn = "repetition" /\ IsSome(call.flagged)

\* The entries of the history stack before the move that have the hash of the
\* position the move leads to
PriorOccurrences ==
    {i \in DOMAIN call.history : call.history[i] = BoardHash(call.legal.to)}

\* C33: the position make_move leads to is flagged as a repetition only when at
\* least two entries of the history stack before it, the entry make_move pushed
\* not counted, have its hash.
C33_ThirdOccurrence ==
    (RepetitionDone /\ Unwrap(call.flagged)) => Cardinality(PriorOccurrences) >= 2

\* The entries before the move the test looks at: every second one, from the
\* second last on, of the last halfmove_clock ones
PriorLooked ==
    {i \in DOMAIN call.history :
        /\ (Len(call.history) - i) % 2 = 1
        /\ Len(call.history) - i < Game[call.legal.to].halfmove}

\* The test as it is: flagged exactly when one of the entries looked at before the
\* move has the hash
C33_OnSecondOccurrence ==
    RepetitionDone => (Unwrap(call.flagged) <=> PriorOccurrences \cap PriorLooked /= {})

---------------------------------------------------------------------------
\* ---- stop behind a request that needs a lock of the search ----

\* A stop of the host waits in the coordinator's inbox.
StopQueued ==
    \E i \in DOMAIN reportq : reportq[i].src = "Uci" /\ reportq[i].req.t = "Stop"

\* The coordinator is at a statement that locks the board or the history, for a
\* position line, and the lock is held.
CoordWaitsForLock ==
    \/ CoordHas("Uci", "Position") /\ "board" \in locks
    \/ cpc = "position_history" /\ "history" \in locks

\* An infinite search runs and holds the locks, the coordinator waits for one of
\* them, and the stop is behind the request it cannot finish.
StopStuckBehindLock ==
    /\ SearchRunning
    /\ search_mode = Some(ModeInfinite)
    /\ CoordWaitsForLock
    /\ StopQueued

\* C35: a stop sent while a search runs is forwarded to the worker whatever the host
\* sent between go and stop: the coordinator never waits, with the stop behind it,
\* for a lock that the search it should stop holds.
C35_StopNotBehindLock == ~StopStuckBehindLock

\* The wait lasts as long as the search: while the search runs, the coordinator
\* stays where it is and the stop stays in its inbox
C35_StuckWhileSearchRuns ==
    [][(StopStuckBehindLock /\ SearchRunning') => StopStuckBehindLock']_vars

---------------------------------------------------------------------------
\* ---- the board and the history a search sees ----

\* The pairs of a board and a history that main_loop starts with or that a
\* position line of the host installs
InstalledPairs ==
    {<<BoardDefault, << >>>>} \cup {<<r.board, r.history>> : r \in PairLines \ {ReqGo(ModeDepth(1))}}

\* C36: the board and the history a search sees belong together: they are a pair
\* that one request installed, never the board of one and the history of another.
C36_SearchSeesAPair == sid > 0 => <<searchRoot, rootHistory>> \in InstalledPairs

\* Every board and every history a search sees is one that was installed
C36_OnEachOfTheTwo ==
    sid > 0 => /\ searchRoot \in {p[1] : p \in InstalledPairs}
               /\ rootHistory \in {p[2] : p \in InstalledPairs}

---------------------------------------------------------------------------
\* ---- one BestMove for every Start ----

\* The BestMove reports the worker has sent so far
BestMovesSent == Cardinality({i \in DOMAIN Stream : Stream[i].t = "BestMove"})

\* The Start commands the coordinator has sent so far, for a host all of whose
\* lines are go lines: the lines read less those still in the coordinator's inbox
StartsSent ==
    hostSent - Len(SelectSeq(reportq, LAMBDA m : m.src = "Uci" /\ m.req.t = "Go"))

\* C37: every Start the coordinator sends results in exactly one BestMove report,
\* also a Start that arrives while an earlier search runs: in the end there are as
\* many BestMove reports as Start commands.
C37_EveryStartAnswered == <>[](BestMovesSent = StartsSent)

\* There are never more BestMove reports than Start commands
C37_NoMoreBestMovesThanStarts == BestMovesSent <= StartsSent

---------------------------------------------------------------------------
\* ---- what starts a search and what ends it ----

\* The worker, idle, takes a command that is not Start off its channel.
IdleTakesOther ==
    /\ wpc = "recv"
    /\ searchq /= << >>
    /\ Head(searchq).t \in {"Stop", "SetHash", "ClearHash"}
    /\ searchq' = Tail(searchq)

\* The search of a Start that was sent after every Stop of the run
SearchAfterTheStop == SearchRunning /\ search_mode = Some(ModeInfinite)

\* C38: Stop, SetHash and ClearHash taken while idle start no search and send no
\* BestMove, the worker never searches without a mode, and a Stop sent before a
\* Start, also one the earlier search ended without polling, does not terminate the
\* search of that Start.
C38_OnlyLaterStopsTerminate ==
    /\ [][IdleTakesOther =>
            /\ wpc' = "recv"
            /\ sid' = sid
            /\ BestMovesSent' = BestMovesSent]_vars
    /\ [](SearchRunning => IsSome(search_mode))
    /\ [](SearchAfterTheStop => ss.terminate = None)

\* The infinite search runs, after a search to depth 1 that the stop did not end,
\* and the stop is gone from the channels
C38_Witness ==
    /\ sid = 2
    /\ SearchRunning
    /\ search_mode = Some(ModeInfinite)
    /\ ss.nodes > 0
    /\ hostSent = 3
    /\ reportq = << >>
    /\ searchq = << >>

---------------------------------------------------------------------------
\* ---- the ply at the killer-move table ----

\* A node of the line has read a row of the killer-move table, or has tried to
KillerRowRead == call.fn = "line" /\ IsSome(call.row)

\* C39: at every access to the killer-move table the ply is less than the number of
\* rows of the table, for every iteration up to the last, check extensions and
\* quiescence plies included.
C39_PlyInsideTable == KillerRowRead => Unwrap(call.row) < KillerRows

\* On a line without a check the ply of an access is below the depth of the
\* iteration, so inside the table
C39_WithoutChecks ==
    (KillerRowRead /\ call.checks = 0) => Unwrap(call.row) < call.iter

\* quiescence reads no row of the table, whatever its ply
C39_QuiescenceReadsNoRow ==
    (call.fn = "line" /\ call.at = "quiescence") => call.row = None

=========================================================================
